---- MODULE Spec2Model ----
(***************************************************************************)
(* A model of the Notion command-line client (pleaseai/notion).            *)
(*                                                                         *)
(* The program is a one-shot CLI.  Its only persistent state is the        *)
(* credential file ~/.notion-cli/config.json; everything else is the       *)
(* result of one invocation: what it wrote to standard output and to the   *)
(* diagnostic stream, the remote calls it issued and its exit status.      *)
(*                                                                         *)
(* Every handler is a pure operator from (file system, inputs) to an       *)
(* outcome, translated statement by statement from the source; the         *)
(* actions pick the inputs and install the outcome.                        *)
(*                                                                         *)
(* JavaScript values: a string is a TLA+ string, `undefined` is Undef,     *)
(* `null` is Null.  The file system is assumed to work: with one           *)
(* invocation running, a write or unlink of the credential path succeeds   *)
(* (the code has no handling for it).                                      *)
(***************************************************************************)
EXTENDS Integers, Sequences, FiniteSets, TLC

VARIABLES
  fs,        \* the file system: [dir: does ~/.notion-cli exist, file: config.json]
  last,      \* the last operation: its name, its inputs, the file system before it
  ret,       \* how the last library call ended: a value or a raised error
  calls,     \* the remote calls the last operation issued, in order
  out,       \* what the last operation wrote to standard output
  err,       \* what the last operation wrote to the diagnostic stream
  exitCode,  \* [exited, code]: whether the last operation ended the process, and its status
  reg,       \* history: the argument of the last saveConfig not followed by deleteConfig
  procs,     \* the invocations running at the same time: each one's command, position
             \* and what it has read (empty when one invocation runs alone)
  lastAuth   \* history, kept from a start with no credential file: the last login
             \* that ended with status 0, or that a logout ran since

vars == <<fs, last, ret, calls, out, err, exitCode, reg, procs, lastAuth>>

\* ---------------------------------------------------------------- values

Undef == "<undefined>"
Null == "<null>"

\* JavaScript truthiness of a value that is a string, undefined or null.
Truthy(v) == v # Undef /\ v # Null /\ v # ""

\* The value null where an object is expected (loadConfig's "no config").
NullConfig == [null |-> TRUE]

\* Credential values of the model ("" is a string, and falsy).
RealTokens == {"tokA", "tokB"}
Tokens == RealTokens \cup {""}
Workspaces == {"ws1"}

\* ---------------------------------------------------------------- Config

\* interface Config { notionToken?: string; defaultWorkspace?: string }
Config == [notionToken : Tokens \cup {Undef}, defaultWorkspace : Workspaces \cup {Undef}]

ConfigFields == <<"notionToken", "defaultWorkspace">>

\* JSON.stringify(config, null, 2): the defined properties, in order, as text
\* (a sequence of key/value pairs); undefined properties are dropped.
RECURSIVE StringifyFrom(_, _)
StringifyFrom(config, i) ==
  IF i > Len(ConfigFields) THEN <<>>
  ELSE LET k == ConfigFields[i]
           rest == StringifyFrom(config, i + 1)
       IN IF config[k] = Undef THEN rest ELSE <<(<<k, config[k]>>)>> \o rest

JsonStringify(config) == StringifyFrom(config, 1)

\* Property lookup in parsed JSON text: the last pair with the key, else undefined.
RECURSIVE LookupFrom(_, _, _)
LookupFrom(pairs, k, i) ==
  IF i = 0 THEN Undef
  ELSE IF pairs[i][1] = k THEN pairs[i][2] ELSE LookupFrom(pairs, k, i - 1)

\* JSON.parse(content) as Config, for a file holding an object.
JsonParseObject(pairs) ==
  [notionToken |-> LookupFrom(pairs, "notionToken", Len(pairs)),
   defaultWorkspace |-> LookupFrom(pairs, "defaultWorkspace", Len(pairs))]

\* ---------------------------------------------------------------- file system

\* The credential file: absent, or a file that cannot be read, or text that
\* does not parse, or the text "null", or the text of a JSON object.
FileAbsent == [kind |-> "absent", pairs |-> <<>>]
FileUnreadable == [kind |-> "unreadable", pairs |-> <<>>]
FileGarbage == [kind |-> "garbage", pairs |-> <<>>]
FileJsonNull == [kind |-> "null", pairs |-> <<>>]
FileJson(pairs) == [kind |-> "json", pairs |-> pairs]

FsFresh == [dir |-> FALSE, file |-> FileAbsent]

\* fs.existsSync(CONFIG_PATH)
existsSync(f) == f.file.kind # "absent"

Value(v) == [kind |-> "value", val |-> v]
Throw(e) == [kind |-> "throw", val |-> e]

\* fs.readFileSync(CONFIG_PATH, 'utf-8'): raises when the file is missing or unreadable.
readFileSync(f) ==
  IF f.file.kind \in {"absent", "unreadable"} THEN Throw("ENOENT/EACCES") ELSE Value(f.file)

\* JSON.parse(content): raises a SyntaxError on text that is not JSON.
JsonParse(content) ==
  CASE content.kind = "garbage" -> Throw("SyntaxError")
    [] content.kind = "null" -> Value(NullConfig)
    [] OTHER -> Value(JsonParseObject(content.pairs))

\* The try block of loadConfig: JSON.parse(fs.readFileSync(CONFIG_PATH, 'utf-8'))
ParseContent(content) == IF content.kind = "throw" THEN content ELSE JsonParse(content.val)

\* The catch clause of loadConfig: return null
CatchReturnEmptyConfig(r) ==
  IF r.kind = "throw" THEN Value([notionToken |-> Undef, defaultWorkspace |-> Undef]) ELSE r

CatchReturnNull(r) == IF r.kind = "throw" THEN Value(NullConfig) ELSE r

\* loadConfig(): Config | null
loadConfig(f) == CatchReturnNull(ParseContent(readFileSync(f)))

\* saveConfig(config): mkdir when the directory is missing, then write the file.
MergeConfig(old, config) ==
  IF old = NullConfig THEN config
  ELSE [k \in DOMAIN config |-> IF config[k] = Undef THEN old[k] ELSE config[k]]

saveConfigMerge(f, config) ==
  [dir |-> TRUE, file |-> FileJson(JsonStringify(MergeConfig(loadConfig(f).val, config)))]

\* fs.mkdirSync(CONFIG_DIR, {recursive: true}); fs.writeFileSync(CONFIG_PATH, text)
mkdirSync(f) == [f EXCEPT !.dir = TRUE]
writeFileSync(f, text) == [f EXCEPT !.file = FileJson(text)]

saveConfig(f, config) ==
  writeFileSync(IF ~f.dir THEN mkdirSync(f) ELSE f, JsonStringify(config))

\* deleteConfig(): unlink the file when it exists.
deleteConfig(f) ==
  IF existsSync(f) THEN Value([f EXCEPT !.file = FileAbsent]) ELSE Value(f)

\* config?.notionToken
TokenOf(config) == IF config = NullConfig THEN Undef ELSE config.notionToken

NotAuthenticatedMessage == "Not authenticated. Run \"notion auth login\" first."

\* requireAuth(): string
requireAuthNoCheck(f) == Value(TokenOf(loadConfig(f).val))

TokenOrThrowOnNull(config) ==
  IF config = NullConfig
  THEN Throw([code |-> Undef, status |-> 0, message |-> NotAuthenticatedMessage])
  ELSE Value(config.notionToken)

TokenOrThrow(config) ==
  IF ~Truthy(TokenOf(config))
  THEN Throw([code |-> Undef, status |-> 0, message |-> NotAuthenticatedMessage])
  ELSE Value(config.notionToken)

requireAuth(f) == TokenOrThrow(loadConfig(f).val)

\* ---------------------------------------------------------------- property names

\* The name of a context field is a sequence of characters, so that
\* toLowerCase() and includes() are computed on it.
UpperChars == <<"A", "B", "C", "D", "E", "F", "G", "H", "I", "J", "K", "L", "M",
                "N", "O", "P", "Q", "R", "S", "T", "U", "V", "W", "X", "Y", "Z">>
LowerChars == <<"a", "b", "c", "d", "e", "f", "g", "h", "i", "j", "k", "l", "m",
                "n", "o", "p", "q", "r", "s", "t", "u", "v", "w", "x", "y", "z">>

\* String.prototype.toLowerCase, on one character and on a name.
LowerChar(c) ==
  IF \E i \in DOMAIN UpperChars : UpperChars[i] = c
  THEN LowerChars[CHOOSE i \in DOMAIN UpperChars : UpperChars[i] = c]
  ELSE c

toLowerCase(s) == [i \in DOMAIN s |-> LowerChar(s[i])]

\* String.prototype.includes
includes(s, sub) ==
  \E i \in 0..(Len(s) - Len(sub)) : SubSeq(s, i + 1, i + Len(sub)) = sub

K_token == <<"t", "o", "k", "e", "n">>
K_secret == <<"s", "e", "c", "r", "e", "t">>
K_operation == <<"o", "p", "e", "r", "a", "t", "i", "o", "n">>
K_limit == <<"l", "i", "m", "i", "t">>
K_pageId == <<"p", "a", "g", "e", "I", "d">>
K_databaseId == <<"d", "a", "t", "a", "b", "a", "s", "e", "I", "d">>
K_title == <<"t", "i", "t", "l", "e">>
K_parent == <<"p", "a", "r", "e", "n", "t">>
K_filter == <<"f", "i", "l", "t", "e", "r">>
K_sorts == <<"s", "o", "r", "t", "s">>
K_schema == <<"s", "c", "h", "e", "m", "a">>
K_archive == <<"a", "r", "c", "h", "i", "v", "e">>
K_unarchive == <<"u", "n", "a", "r", "c", "h", "i", "v", "e">>
\* Names a caller of the error classifier may use for a credential.
K_notionToken == <<"n", "o", "t", "i", "o", "n", "T", "o", "k", "e", "n">>
K_API_TOKEN == <<"A", "P", "I", "_", "T", "O", "K", "E", "N">>
K_clientSecret == <<"c", "l", "i", "e", "n", "t", "S", "e", "c", "r", "e", "t">>

\* ---------------------------------------------------------------- diagnostics

\* One console.error line: the template, and what is interpolated into it
\* (a property name, string values, a number).
Line(fmt, key, vals, num) == [fmt |-> fmt, key |-> key, vals |-> vals, num |-> num]
Text(fmt) == Line(fmt, <<>>, <<>>, 0)

\* `${value}` for a value that is a string or undefined.
ToStr(v) == IF v = Undef THEN "undefined" ELSE IF v = Null THEN "null" ELSE v

\* The state of a handler in progress: the lines written to the diagnostic
\* stream so far, and whether process.exit has run (and with what status).
Running(lines) == [lines |-> lines, exited |-> FALSE, code |-> 0]
Exited(lines, code) == [lines |-> lines, exited |-> TRUE, code |-> code]

\* Sequencing: the statements after a call run only when the call returned.
AndThen(st, lines) == IF st.exited THEN st ELSE [st EXCEPT !.lines = st.lines \o lines]
ThenExit(st, code) == IF st.exited THEN st ELSE Exited(st.lines, code)

\* The test of logContext: is the field one whose value must not be printed?
IsSensitiveCaseSensitive(key) == includes(key, K_token) \/ includes(key, K_secret)

IsSensitive(key) ==
  includes(toLowerCase(key), K_token) \/ includes(toLowerCase(key), K_secret)

\* logContext(context): context is Object.entries order, <<key, value>> pairs.
ContextLine(entry) ==
  IF IsSensitive(entry[1])
  THEN Line("    ${key}: [REDACTED]", entry[1], <<>>, 0)
  ELSE Line("    ${key}: ${value}", entry[1], <<ToStr(entry[2])>>, 0)

logContext(context) ==
  IF Len(context) = 0 THEN <<>>
  ELSE <<Text("\n  Context:")>> \o [i \in DOMAIN context |-> ContextLine(context[i])]

\* handleNotionApiError(code, message, operation, context): never
ApiHint(code, message) ==
  CASE code = "unauthorized" ->
         <<Text("  Authentication failed. Your token may be invalid or expired."),
           Text("  Run \"notion auth login\" to re-authenticate.")>>
    [] code = "restricted_resource" ->
         <<Text("  Access denied. You may not have permission for this resource.")>>
    [] code = "object_not_found" ->
         <<Text("  Resource not found. Check the ID and try again.")>>
    [] code = "rate_limited" ->
         <<Text("  Rate limit exceeded. Please wait a moment and try again.")>>
    [] code \in {"invalid_json", "invalid_request"} ->
         <<Line("  Invalid request: ${message}", <<>>, <<ToStr(message)>>, 0)>>
    [] code = "validation_error" ->
         <<Line("  Validation error: ${message}", <<>>, <<ToStr(message)>>, 0)>>
    [] code = "conflict_error" ->
         <<Text("  Conflict error. The resource may have been modified.")>>
    [] code = "service_unavailable" ->
         <<Text("  Notion service is temporarily unavailable. Try again later.")>>
    [] OTHER ->
         <<Line("  Error: ${message}", <<>>, <<ToStr(message)>>, 0)>>

handleNotionApiErrorReturns(code, message, operation, context) ==
  Running(<<Line("X ${operation} failed", <<>>, <<operation>>, 0)>>
            \o ApiHint(code, message) \o logContext(context))

handleNotionApiError(code, message, operation, context) ==
  Exited(<<Line("X ${operation} failed", <<>>, <<operation>>, 0)>>
           \o ApiHint(code, message) \o logContext(context), 1)

\* handleHttpError(status, operation, context): never
HttpHint(status) ==
  CASE status = 400 -> <<Text("  Bad request. Check your input and try again.")>>
    [] status = 401 -> <<Text("  Authentication failed."),
                         Text("  Run \"notion auth login\" to re-authenticate.")>>
    [] status = 403 -> <<Text("  Permission denied.")>>
    [] status = 404 -> <<Text("  Resource not found.")>>
    [] status = 429 -> <<Text("  Rate limit exceeded. Please wait and try again.")>>
    [] status \in {500, 502, 503} ->
         <<Text("  Notion server error. Please try again later.")>>
    [] OTHER -> <<Line("  HTTP ${status} error.", <<>>, <<>>, status)>>

handleHttpError(status, operation, context) ==
  Exited(<<Line("X ${operation} failed", <<>>, <<operation>>, 0)>>
           \o HttpHint(status) \o logContext(context), 1)

\* String(error) for an Error object without a message.
StringOfError(error) == "Error"

\* A callee's diagnostics follow the lines already written.
After(lines, st) == [st EXCEPT !.lines = lines \o st.lines]

\* if (error.code) handleNotionApiError(error.code, error.message, operation, context)
ApiBranch(st, error, operation, context) ==
  IF ~st.exited /\ Truthy(error.code)
  THEN After(st.lines, handleNotionApiError(error.code, error.message, operation, context))
  ELSE st

\* if (error.status) handleHttpError(error.status, operation, context)
HttpBranch(st, error, operation, context) ==
  IF ~st.exited /\ error.status # 0
  THEN After(st.lines, handleHttpError(error.status, operation, context))
  ELSE st

\* if (error.code === 'ENOTFOUND' || error.code === 'ECONNREFUSED') { ...; process.exit(1) }
NetworkBranch(st, error, operation, context) ==
  IF ~st.exited /\ error.code \in {"ENOTFOUND", "ECONNREFUSED"}
  THEN ThenExit(AndThen(st,
         <<Text("X Network error"),
           Text("  Could not connect to Notion API. Check your internet connection.")>>
         \o logContext(context)), 1)
  ELSE st

\* console.error(`X ${operation} failed: ${error.message || String(error)}`); logContext(context)
GenericMessage(st, error, operation, context) ==
  AndThen(st,
    <<Line("X ${operation} failed: ${message}", <<>>,
           <<operation, IF Truthy(error.message) THEN error.message ELSE StringOfError(error)>>,
           0)>>
    \o logContext(context))

\* if (process.env.DEBUG) { console.error('\n  Full error details:'); console.error(error) }
DebugDump(st, error, debug) ==
  IF debug
  THEN AndThen(st, <<Text("\n  Full error details:"),
                     Line("${error}", <<>>, <<ToStr(error.code), ToStr(error.message)>>,
                          error.status)>>)
  ELSE st

\* The generic branch, to its process.exit(1).
GenericBranchReturns(st, error, operation, context, debug) ==
  DebugDump(GenericMessage(st, error, operation, context), error, debug)

GenericBranch(st, error, operation, context, debug) ==
  ThenExit(DebugDump(GenericMessage(st, error, operation, context), error, debug), 1)

\* handleNotionError(error, operation, context = {}): never
\* error is [code, status, message]; status 0 stands for "no status";
\* debug is process.env.DEBUG.
handleNotionError(error, operation, context, debug) ==
  GenericBranch(
    NetworkBranch(
      HttpBranch(
        ApiBranch(Running(<<>>), error, operation, context),
        error, operation, context),
      error, operation, context),
    error, operation, context, debug)

\* ---------------------------------------------------------------- remote service

\* A failure of a remote call, as the value the SDK raises: [code, status, message].
Err(code, status, message) == [code |-> code, status |-> status, message |-> message]

\* The failures the remote service answers a command with.
RemoteErrors ==
  { Err("object_not_found", 404, "Could not find object."),
    Err("ENOTFOUND", 0, "getaddrinfo ENOTFOUND api.notion.com"),
    Err(Undef, 502, "Bad Gateway"),
    Err(Undef, 0, "fetch failed") }

Ok == [ok |-> TRUE, error |-> Err(Undef, 0, Undef)]
Fail(e) == [ok |-> FALSE, error |-> e]
Failures == {Fail(e) : e \in RemoteErrors}
Responses == {Ok} \cup Failures

\* The service never accepts an empty bearer token.
ResponsesFor(token) == IF token = "" THEN Failures ELSE Responses

\* A remote call: the endpoint, the bearer token of the client, the request.
Call(api, token, req) == [api |-> api, token |-> token, req |-> req]

\* validateToken(token): Promise<boolean>
\* try { new Client({auth: token}); await client.users.me({}); return true } catch { return false }
validateTokenPropagates(token, resp) ==
  [calls |-> <<Call("users.me", token, [none |-> TRUE])>>,
   ret |-> IF resp.ok THEN Value(TRUE) ELSE Throw(resp.error)]

validateToken(token, resp) ==
  [calls |-> <<Call("users.me", token, [none |-> TRUE])>>,
   ret |-> IF resp.ok THEN Value(TRUE) ELSE Value(FALSE)]

\* A createNotionClient that builds the client from whatever the config holds.
createNotionClientUnchecked(f) == Value(TokenOf(loadConfig(f).val))

\* createNotionClient(): Client -- the token of the session, or the error of requireAuth
createNotionClient(f) == requireAuth(f)

\* ---------------------------------------------------------------- values and text

\* A JavaScript value handed to an encoder: a scalar, an array of values, or
\* an object as Object.entries gives it (<<key, value>> pairs, distinct keys).
\* A resource is a part of a remote answer the model does not look into.
Str(s) == [kind |-> "string", val |-> s]
Number(n) == [kind |-> "number", val |-> n]
Bool(b) == [kind |-> "boolean", val |-> b]
NullValue == [kind |-> "null", val |-> Null]
UndefinedValue == [kind |-> "undefined", val |-> Undef]
Arr(items) == [kind |-> "array", val |-> items]
Obj(entries) == [kind |-> "object", val |-> entries]
Resource(name) == [kind |-> "resource", val |-> name]

\* Text is a sequence of lines; a line is its leading 2-space units and its
\* words, which a single space separates.
TextLine(ind, words) == [ind |-> ind, words |-> words]
Word(kind, s) == [kind |-> kind, s |-> s]

\* `${data}` for a scalar: the characters of a string, the digits of a number,
\* NaN, true, false.
ScalarWord(data) ==
  CASE data.kind = "string" -> Word("chars", data.val)
    [] data.kind = "number" ->
         IF data.val.nan THEN Word("chars", "NaN") ELSE Word("digits", data.val.n)
    [] data.kind = "boolean" -> Word("chars", IF data.val THEN "true" ELSE "false")
    [] OTHER -> Word("resource", data.val)

\* String.prototype.trim on a text whose first line has words and whose last
\* line ends in one: the leading spaces go.
trimText(text) == [text EXCEPT ![1].ind = 0]

\* `${spaces}${key}: ${rest}`: the key, a colon, a space and the text.
AfterKey(ind, key, text) ==
  <<TextLine(ind, <<Word("key", key)>> \o text[1].words)>> \o Tail(text)

\* typeof value === 'object' && value !== null && !Array.isArray(value)
IsPlainObject(value) == value.kind \in {"object", "resource"}

RECURSIVE encodePlain(_, _)
RECURSIVE PlainItems(_, _, _)
RECURSIVE PlainEntries(_, _, _)

\* data.map(item => encodePlain(item, indent)).join('\n')
PlainItems(items, i, indent) ==
  IF i > Len(items) THEN <<>>
  ELSE encodePlain(items[i], indent) \o PlainItems(items, i + 1, indent)

\* entries.map(([key, value]) => ...).join('\n')
PlainEntries(entries, i, indent) ==
  IF i > Len(entries) THEN <<>>
  ELSE (IF IsPlainObject(entries[i][2])
        THEN <<TextLine(indent, <<Word("key", entries[i][1])>>)>>
               \o encodePlain(entries[i][2], indent + 1)
        ELSE AfterKey(indent, entries[i][1], trimText(encodePlain(entries[i][2], 0))))
       \o PlainEntries(entries, i + 1, indent)

\* encodePlain(data: unknown, indent = 0): string
encodePlain(data, indent) ==
  CASE data.kind \in {"null", "undefined"} -> <<TextLine(indent, <<Word("chars", "null")>>)>>
    [] data.kind \in {"string", "number", "boolean"} -> <<TextLine(indent, <<ScalarWord(data)>>)>>
    [] data.kind = "array" ->
         IF Len(data.val) = 0 THEN <<TextLine(indent, <<Word("chars", "[]")>>)>>
         ELSE PlainItems(data.val, 1, indent)
    [] data.kind = "object" ->
         IF Len(data.val) = 0 THEN <<TextLine(indent, <<Word("chars", "{}")>>)>>
         ELSE PlainEntries(data.val, 1, indent)
    [] OTHER -> <<TextLine(indent, <<ScalarWord(data)>>)>>

\* ---------------------------------------------------------------- JSON

\* A stringify that writes a number as a string of its digits.
JsonScalarWordQuotesNumbers(data) ==
  CASE data.kind = "string" -> Word("quoted", data.val)
    [] data.kind = "number" -> Word("quoted", data.val.n)
    [] data.kind = "boolean" -> Word("literal", IF data.val THEN "true" ELSE "false")
    [] data.kind = "resource" -> Word("resource", data.val)
    [] OTHER -> Word("literal", "null")

\* JSON.stringify of a scalar: a quoted string, the digits of a finite number,
\* null for a number that is not finite, true, false, null.
JsonScalarWord(data) ==
  CASE data.kind = "string" -> Word("quoted", data.val)
    [] data.kind = "number" ->
         IF data.val.nan THEN Word("literal", "null") ELSE Word("digits", data.val.n)
    [] data.kind = "boolean" -> Word("literal", IF data.val THEN "true" ELSE "false")
    [] data.kind = "resource" -> Word("resource", data.val)
    [] OTHER -> Word("literal", "null")

Punct(c) == Word("punct", c)
IsPunct(w, c) == w.kind = "punct" /\ w.s = c

\* The text with a comma after its last word.
WithComma(text) ==
  [text EXCEPT ![Len(text)].words = @ \o <<Punct(",")>>]

\* The text with words ahead of its first line, at indentation ind.
Prefixed(ind, words, text) ==
  <<TextLine(ind, words \o text[1].words)>> \o Tail(text)

RECURSIVE stringify(_, _)
RECURSIVE JsonItems(_, _, _)
RECURSIVE JsonEntries(_, _, _)

\* The elements of an array, one to a line, commas between them.
JsonItems(items, i, ind) ==
  IF i > Len(items) THEN <<>>
  ELSE (IF i < Len(items) THEN WithComma(stringify(items[i], ind))
        ELSE stringify(items[i], ind))
       \o JsonItems(items, i + 1, ind)

\* The members of an object, `"key": value`, commas between them.
JsonEntries(entries, i, ind) ==
  IF i > Len(entries) THEN <<>>
  ELSE (LET member == Prefixed(ind, <<Word("key", entries[i][1])>>,
                               stringify(entries[i][2], ind))
        IN  IF i < Len(entries) THEN WithComma(member) ELSE member)
       \o JsonEntries(entries, i + 1, ind)

\* JSON.stringify(value, null, 2), the value standing at indentation ind.
stringify(data, ind) ==
  CASE data.kind = "array" ->
         IF Len(data.val) = 0 THEN <<TextLine(ind, <<Punct("[]")>>)>>
         ELSE <<TextLine(ind, <<Punct("[")>>)>> \o JsonItems(data.val, 1, ind + 1)
                \o <<TextLine(ind, <<Punct("]")>>)>>
    [] data.kind = "object" ->
         IF Len(data.val) = 0 THEN <<TextLine(ind, <<Punct("{}")>>)>>
         ELSE <<TextLine(ind, <<Punct("{")>>)>> \o JsonEntries(data.val, 1, ind + 1)
                \o <<TextLine(ind, <<Punct("}")>>)>>
    [] OTHER -> <<TextLine(ind, <<JsonScalarWord(data)>>)>>

\* encodeJson(data: unknown): string
encodeJson(data) == stringify(data, 0)

\* ---------------------------------------------------------------- output

Formats == {"toon", "json", "plain"}

\* encodeToon(data): encode(data, {delimiter: '\t', indent: 2}) of the TOON
\* library, a text that is a function of the data.
encodeToon(data) == <<TextLine(0, <<Word("toon", data)>>)>>

\* A formatOutput whose plain case returns the JSON text.
formatOutputPlainAsJson(data, format) ==
  CASE format = "toon" -> Str(encodeToon(data))
    [] format = "json" -> Str(encodeJson(data))
    [] format = "plain" -> Str(encodeJson(data))
    [] OTHER -> UndefinedValue

\* formatOutput(data, {format}): the string of the encoder the switch selects;
\* no case matches another name and the function returns undefined.
formatOutput(data, format) ==
  CASE format = "toon" -> Str(encodeToon(data))
    [] format = "json" -> Str(encodeJson(data))
    [] format = "plain" -> Str(encodePlain(data, 0))
    [] OTHER -> UndefinedValue

\* output(data, format): console.log(formatOutput(data, {format}))
output(data, format) == <<formatOutput(data, format)>>

\* What commander hands an action after the declared arguments: the options
\* object, then the command.  `root` is the value of the root --format option.
CommandObject(root) == [isCommand |-> TRUE, rootFormat |-> root]
OptionsObject == [isCommand |-> FALSE, rootFormat |-> Undef]

\* getFormat(command): command.parent?.parent?.opts()?.format || 'toon'
RootFormatOf(command) == IF command.isCommand THEN command.rootFormat ELSE Undef
OrToon(format) == IF Truthy(format) THEN format ELSE "toon"

getFormat(command) == OrToon(RootFormatOf(command))

\* ---------------------------------------------------------------- outcome of an invocation

\* What one invocation did: the file system after it, the remote calls, the
\* documents on standard output, and the handler state (diagnostics, exit).
Outcome(f, cs, o, st) == [fs |-> f, calls |-> cs, out |-> o, st |-> st]

\* The catch clause of a command: handleNotionError(error, operation, context).
Caught(f, cs, lines, error, operation, context, debug) ==
  Outcome(f, cs, <<>>, After(lines, handleNotionError(error, operation, context, debug)))

\* ---------------------------------------------------------------- auth commands

\* String.prototype.trim on the answers the prompt can give.
trim(s) ==
  CASE s = " tokA " -> "tokA"
    [] s = "   " -> ""
    [] OTHER -> s

PromptInputs == {Null, "", "   ", " tokA ", "tokB"}

PromptLines ==
  <<Text("Enter your Notion integration token:"),
    Text("(Get it from https://www.notion.so/my-integrations)")>>

\* The objects the auth commands print.
StatusMessage(status, message) ==
  Obj(<<<<"status", Str(status)>>, <<"message", Str(message)>>>>)
AuthMessage(authenticated, message) ==
  Obj(<<<<"authenticated", Bool(authenticated)>>, <<"message", Str(message)>>>>)
LoginSuccess == StatusMessage("success", "Successfully authenticated")

\* An auth login that keeps the workspace of the record it replaces.
WorkspaceOf(config) == IF config = NullConfig THEN Undef ELSE config.defaultWorkspace
loginValidatedKeepsWorkspace(f, format, notionToken, lines, v, debug) ==
  IF v.ret.kind = "throw"
  THEN Caught(f, v.calls, lines, v.ret.val, "Authentication",
              <<(<<K_operation, "login">>)>>, debug)
  ELSE IF ~v.ret.val
  THEN Outcome(f, v.calls, <<>>,
         Exited(lines \o
                <<Text("X Invalid token"),
                  Text("  Make sure you copied the correct integration token."),
                  Text("  Get it from https://www.notion.so/my-integrations")>>, 1))
  ELSE Outcome(saveConfig(f, [notionToken |-> notionToken,
                              defaultWorkspace |-> WorkspaceOf(loadConfig(f).val)]),
               v.calls, output(LoginSuccess, format), Running(lines))

\* auth login, from the answer of validateToken on: reject, or save and report.
loginValidated(f, format, notionToken, lines, v, debug) ==
  IF v.ret.kind = "throw"
  THEN Caught(f, v.calls, lines, v.ret.val, "Authentication",
              <<(<<K_operation, "login">>)>>, debug)
  ELSE IF ~v.ret.val
  THEN Outcome(f, v.calls, <<>>,
         Exited(lines \o
                <<Text("X Invalid token"),
                  Text("  Make sure you copied the correct integration token."),
                  Text("  Get it from https://www.notion.so/my-integrations")>>, 1))
  ELSE Outcome(saveConfig(f, [notionToken |-> notionToken, defaultWorkspace |-> Undef]),
               v.calls, output(LoginSuccess, format), Running(lines))

\* auth login, once the token is known.
loginWithToken(f, format, notionToken, lines, resp, debug) ==
  loginValidated(f, format, notionToken, lines \o <<Text("Validating token...")>>,
                 validateToken(notionToken, resp), debug)

\* auth login [token]: the action is declared (token, command), so its second
\* parameter is bound to the options object.
authLoginNoValidation(f, root, token, input, resp, debug) ==
  Outcome(saveConfig(f, [notionToken |-> IF Truthy(token) THEN token ELSE trim(input),
                         defaultWorkspace |-> Undef]),
          <<>>, output(LoginSuccess, "toon"), Running(<<>>))

authLogin(f, root, token, input, resp, debug) ==
  IF Truthy(token)
  THEN loginWithToken(f, getFormat(OptionsObject), token, <<>>, resp, debug)
  ELSE IF ~Truthy(input)
  THEN Outcome(f, <<>>, <<>>, Exited(PromptLines \o <<Text("X Token is required")>>, 1))
  ELSE loginWithToken(f, getFormat(OptionsObject), trim(input), PromptLines, resp, debug)

\* auth logout, from the loaded config on.
logoutWithConfig(f, format, config) ==
  IF ~Truthy(TokenOf(config))
  THEN Outcome(f, <<>>, output(StatusMessage("info", "Not authenticated"), format),
               Running(<<>>))
  ELSE Outcome(deleteConfig(f).val, <<>>,
               output(StatusMessage("success", "Successfully logged out"), format),
               Running(<<>>))

\* auth logout: the action is declared (command), bound to the options object.
authLogoutKeepsFile(f, root) ==
  Outcome(f, <<>>,
          output(StatusMessage("success", "Successfully logged out"), "toon"),
          Running(<<>>))

authLogout(f, root) == logoutWithConfig(f, getFormat(OptionsObject), loadConfig(f).val)

\* An auth status that removes a credential the service did not accept.
statusValidatedClearsStale(f, format, v, debug) ==
  IF v.ret.kind = "throw"
  THEN Caught(f, v.calls, <<>>, v.ret.val, "Status check",
              <<(<<K_operation, "status">>)>>, debug)
  ELSE IF v.ret.val
  THEN Outcome(f, v.calls, output(AuthMessage(TRUE, "Authenticated"), format), Running(<<>>))
  ELSE Outcome(deleteConfig(f).val, v.calls,
         output(AuthMessage(FALSE, "Token is invalid or expired. Run \"notion auth login\" to re-authenticate."),
                format),
         Running(<<>>))

\* auth status, from the answer of validateToken on.
statusValidated(f, format, v, debug) ==
  IF v.ret.kind = "throw"
  THEN Caught(f, v.calls, <<>>, v.ret.val, "Status check",
              <<(<<K_operation, "status">>)>>, debug)
  ELSE IF v.ret.val
  THEN Outcome(f, v.calls,
         output(AuthMessage(TRUE, "Authenticated"), format),
         Running(<<>>))
  ELSE Outcome(f, v.calls,
         output(AuthMessage(FALSE, "Token is invalid or expired. Run \"notion auth login\" to re-authenticate."),
                format),
         Running(<<>>))

\* auth status, from the loaded config on.
statusWithConfig(f, format, config, resp, debug) ==
  IF ~Truthy(TokenOf(config))
  THEN Outcome(f, <<>>,
         output(AuthMessage(FALSE, "Not authenticated. Run \"notion auth login\" to authenticate."),
                format),
         Running(<<>>))
  ELSE statusValidated(f, format, validateToken(config.notionToken, resp), debug)

\* auth status: the action is declared (command), bound to the options object.
authStatus(f, root, resp, debug) ==
  statusWithConfig(f, getFormat(OptionsObject), loadConfig(f).val, resp, debug)

\* ---------------------------------------------------------------- numbers

\* A JavaScript number that may be NaN.
Num(n) == [nan |-> FALSE, n |-> n]
NaN == [nan |-> TRUE, n |-> 0]

DigitChars == <<"0", "1", "2", "3", "4", "5", "6", "7", "8", "9">>
IsDigit(c) == \E i \in DOMAIN DigitChars : DigitChars[i] = c
DigitValue(c) == (CHOOSE i \in DOMAIN DigitChars : DigitChars[i] = c) - 1

\* The digits of chars from position i on, read until the first non-digit.
RECURSIVE ParseDigits(_, _, _, _)
ParseDigits(chars, i, acc, seen) ==
  IF i > Len(chars) \/ ~IsDigit(chars[i])
  THEN IF seen THEN Num(acc) ELSE NaN
  ELSE ParseDigits(chars, i + 1, acc * 10 + DigitValue(chars[i]), TRUE)

\* Number.parseInt(text, 10)
parseInt(chars) ==
  IF Len(chars) > 0 /\ chars[1] = "-"
  THEN LET m == ParseDigits(chars, 2, 0, FALSE) IN IF m.nan THEN NaN ELSE Num(0 - m.n)
  ELSE IF Len(chars) > 0 /\ chars[1] = "+" THEN ParseDigits(chars, 2, 0, FALSE)
  ELSE ParseDigits(chars, 1, 0, FALSE)

\* Math.min(a, b)
MathMin(a, b) == IF a.nan \/ b.nan THEN NaN ELSE IF a.n < b.n THEN a ELSE b

MaxPageSize == 100

\* A --limit value: the text as typed (what a diagnostic prints) and its characters.
LimitArg(text, chars) == [text |-> text, chars |-> chars]
DefaultLimit == LimitArg("100", <<"1", "0", "0">>)
LimitArgs ==
  { DefaultLimit,
    LimitArg("7", <<"7">>),
    LimitArg("250", <<"2", "5", "0">>),
    LimitArg("abc", <<"a", "b", "c">>) }

\* ---------------------------------------------------------------- command inputs

\* JSON.parse on the texts a --filter, --sorts or --schema option is given.
JsonTexts == {"{\"property\":\"Done\"}"}
NonJsonTexts == {"not-json"}
JsonOptions == {Undef} \cup JsonTexts \cup NonJsonTexts
ParsesAsJson(text) == text \in JsonTexts

\* Resource ids and titles as typed on the command line (any string, so also
\* a string equal to a credential).
Ids == {"id1", "tokA"}
Titles == {"Roadmap"}

\* commander's own rejections, before the action runs.
MissingArgument(f, name) ==
  Outcome(f, <<>>, <<>>,
          Exited(<<Line("error: missing required argument '${name}'", <<>>, <<name>>, 0)>>, 1))
MissingOption(f, name) ==
  Outcome(f, <<>>, <<>>,
          Exited(<<Line("error: required option '${name}' not specified", <<>>, <<name>>, 0)>>, 1))

\* The entries a spread of the options object contributes to a context.
OptEntry(key, value) == IF value = Undef THEN <<>> ELSE <<(<<key, value>>)>>
FlagEntry(key, flag) == IF flag THEN <<(<<key, "true">>)>> ELSE <<>>

\* ---------------------------------------------------------------- page commands

\* The objects the page and database commands print, built from the answer
\* of the service.
Listing(name) == Obj(<<<<name, Resource(name)>>, <<"total", Resource("total")>>>>)
Single(name, answer) == Obj(<<<<name, Resource(answer)>>>>)
Created(name, title) ==
  Obj(<<<<"status", Str("success")>>,
        <<name, Obj(<<<<"id", Resource("id")>>, <<"title", Str(title)>>,
                      <<"url", Resource("url")>>>>)>>>>)
Updated(name) == Obj(<<<<"status", Str("success")>>, <<name, Resource(name)>>>>)

\* One awaited remote call of a command and what follows it: the catch clause
\* when the call fails, the output of `data` when it succeeds.
Called(f, cs, resp, operation, context, debug, data, format) ==
  IF ~resp.ok
  THEN Caught(f, cs, <<>>, resp.error, operation, context, debug)
  ELSE Outcome(f, cs, output(data, format), Running(<<>>))

PageSizeUnclamped(limit) == parseInt(limit.chars)

PageSize(limit) == MathMin(parseInt(limit.chars), Num(MaxPageSize))

\* page list [--limit N], from createNotionClient() on
pageListWith(notion, f, format, limit, context, resp, debug) ==
  IF notion.kind = "throw"
  THEN Caught(f, <<>>, <<>>, notion.val, "List pages", context, debug)
  ELSE Called(f, <<Call("search", notion.val,
                        [filter |-> "page", page_size |-> PageSize(limit)])>>,
              resp, "List pages", context, debug, Listing("pages"), format)

pageList(f, root, limit, resp, debug) ==
  pageListWith(createNotionClient(f), f, getFormat(CommandObject(root)), limit,
               <<(<<K_limit, limit.text>>)>>, resp, debug)

\* A page get that lists the blocks whatever the page retrieval answered.
pageGetRetrievedListsAnyway(token, f, format, pageId, content, context, c1, resp, resp2, debug) ==
  IF ~content
  THEN Called(f, c1, resp, "Get page", context, debug, Single("page", "page"), format)
  ELSE Called(f, c1 \o <<Call("blocks.children.list", token, [block_id |-> pageId])>>,
              resp2, "Get page", context, debug, Single("page", "page and blocks"), format)

\* page get <page-id> [--content], from the answer to pages.retrieve on
pageGetRetrieved(token, f, format, pageId, content, context, c1, resp, resp2, debug) ==
  IF ~resp.ok
  THEN Caught(f, c1, <<>>, resp.error, "Get page", context, debug)
  ELSE IF ~content
  THEN Outcome(f, c1, output(Single("page", "page"), format), Running(<<>>))
  ELSE Called(f, c1 \o <<Call("blocks.children.list", token, [block_id |-> pageId])>>,
              resp2, "Get page", context, debug, Single("page", "page and blocks"), format)

pageGetWith(notion, f, format, pageId, content, context, resp, resp2, debug) ==
  IF notion.kind = "throw"
  THEN Caught(f, <<>>, <<>>, notion.val, "Get page", context, debug)
  ELSE pageGetRetrieved(notion.val, f, format, pageId, content, context,
                        <<Call("pages.retrieve", notion.val, [page_id |-> pageId])>>,
                        resp, resp2, debug)

pageGet(f, root, pageId, content, resp, resp2, debug) ==
  IF pageId = Undef THEN MissingArgument(f, "page-id")
  ELSE pageGetWith(createNotionClient(f), f, getFormat(CommandObject(root)), pageId, content,
                   <<(<<K_pageId, pageId>>)>>, resp, resp2, debug)

\* page create --title T [--parent ID] [--content TEXT], from createNotionClient() on
pageCreateWith(notion, f, format, title, parent, content, context, resp, debug) ==
  IF notion.kind = "throw"
  THEN Caught(f, <<>>, <<>>, notion.val, "Create page", context, debug)
  ELSE IF ~Truthy(parent)
  THEN Outcome(f, <<>>, <<>>,
         Exited(<<Text("X Parent page or database ID is required"),
                  Text("  Use --parent <id> to specify where to create the page")>>, 1))
  ELSE Called(f, <<Call("pages.create", notion.val,
                        [parent |-> parent, title |-> title,
                         children |-> IF Truthy(content) THEN content ELSE Undef])>>,
              resp, "Create page", context, debug,
              Created("page", title), format)

pageCreate(f, root, title, parent, content, resp, debug) ==
  IF title = Undef THEN MissingOption(f, "-t, --title <title>")
  ELSE pageCreateWith(createNotionClient(f), f, getFormat(CommandObject(root)), title, parent,
                      content, <<(<<K_title, title>>), (<<K_parent, parent>>)>>, resp, debug)

\* The update a page update sends: the fields the options set.
PageUpdateOf(title, archive, unarchive) ==
  [title |-> IF Truthy(title) THEN title ELSE Undef,
   archived |-> IF archive THEN "true" ELSE IF unarchive THEN "false" ELSE Undef]

\* page update <page-id> [--title T] [--archive|--unarchive], from createNotionClient() on
pageUpdateWith(notion, f, format, pageId, update, context, resp, debug) ==
  IF notion.kind = "throw"
  THEN Caught(f, <<>>, <<>>, notion.val, "Update page", context, debug)
  ELSE IF update.title = Undef /\ update.archived = Undef
  THEN Outcome(f, <<>>, <<>>,
         Exited(<<Text("X No updates specified"),
                  Text("  Use --title, --archive, or --unarchive")>>, 1))
  ELSE Called(f, <<Call("pages.update", notion.val, [page_id |-> pageId, update |-> update])>>,
              resp, "Update page", context, debug, Updated("page"),
              format)

pageUpdate(f, root, pageId, title, archive, unarchive, resp, debug) ==
  IF pageId = Undef THEN MissingArgument(f, "page-id")
  ELSE pageUpdateWith(createNotionClient(f), f, getFormat(CommandObject(root)), pageId,
                      PageUpdateOf(title, archive, unarchive),
                      <<(<<K_pageId, pageId>>)>> \o OptEntry(K_title, title)
                        \o FlagEntry(K_archive, archive) \o FlagEntry(K_unarchive, unarchive),
                      resp, debug)

\* ---------------------------------------------------------------- database commands

InvalidJson(f, what, hint) == Outcome(f, <<>>, <<>>, Exited(<<Text(what), Text(hint)>>, 1))

\* database list [--limit N], from createNotionClient() on
databaseListWith(notion, f, format, limit, context, resp, debug) ==
  IF notion.kind = "throw"
  THEN Caught(f, <<>>, <<>>, notion.val, "List databases", context, debug)
  ELSE Called(f, <<Call("search", notion.val,
                        [filter |-> "database", page_size |-> PageSize(limit)])>>,
              resp, "List databases", context, debug, Listing("databases"), format)

databaseList(f, root, limit, resp, debug) ==
  databaseListWith(createNotionClient(f), f, getFormat(CommandObject(root)), limit,
                   <<(<<K_limit, limit.text>>)>>, resp, debug)

\* database get <database-id>, from createNotionClient() on
databaseGetWith(notion, f, format, databaseId, context, resp, debug) ==
  IF notion.kind = "throw"
  THEN Caught(f, <<>>, <<>>, notion.val, "Get database", context, debug)
  ELSE Called(f, <<Call("databases.retrieve", notion.val, [database_id |-> databaseId])>>,
              resp, "Get database", context, debug, Single("database", "database"), format)

databaseGet(f, root, databaseId, resp, debug) ==
  IF databaseId = Undef THEN MissingArgument(f, "database-id")
  ELSE databaseGetWith(createNotionClient(f), f, getFormat(CommandObject(root)), databaseId,
                       <<(<<K_databaseId, databaseId>>)>>, resp, debug)

\* database query <database-id> [--filter JSON] [--sorts JSON] [--limit N],
\* from createNotionClient() on
databaseQueryWithUnchecked(notion, f, format, databaseId, filter, sorts, limit, context, resp, debug) ==
  IF notion.kind = "throw"
  THEN Caught(f, <<>>, <<>>, notion.val, "Query database", context, debug)
  ELSE Called(f, <<Call("databases.query", notion.val,
                        [database_id |-> databaseId,
                         page_size |-> PageSize(limit),
                         filter |-> IF Truthy(filter) THEN filter ELSE Undef,
                         sorts |-> IF Truthy(sorts) THEN sorts ELSE Undef])>>,
              resp, "Query database", context, debug, Listing("entries"), format)

databaseQueryWith(notion, f, format, databaseId, filter, sorts, limit, context, resp, debug) ==
  IF notion.kind = "throw"
  THEN Caught(f, <<>>, <<>>, notion.val, "Query database", context, debug)
  ELSE IF Truthy(filter) /\ ~ParsesAsJson(filter)
  THEN InvalidJson(f, "X Invalid filter JSON", "  Filter must be valid JSON")
  ELSE IF Truthy(sorts) /\ ~ParsesAsJson(sorts)
  THEN InvalidJson(f, "X Invalid sorts JSON", "  Sorts must be valid JSON")
  ELSE Called(f, <<Call("databases.query", notion.val,
                        [database_id |-> databaseId,
                         page_size |-> PageSize(limit),
                         filter |-> IF Truthy(filter) THEN filter ELSE Undef,
                         sorts |-> IF Truthy(sorts) THEN sorts ELSE Undef])>>,
              resp, "Query database", context, debug, Listing("entries"), format)

databaseQuery(f, root, databaseId, filter, sorts, limit, resp, debug) ==
  IF databaseId = Undef THEN MissingArgument(f, "database-id")
  ELSE databaseQueryWith(createNotionClient(f), f, getFormat(CommandObject(root)), databaseId,
                         filter, sorts, limit,
                         <<(<<K_databaseId, databaseId>>), (<<K_filter, filter>>),
                           (<<K_sorts, sorts>>)>>,
                         resp, debug)

\* The schema a database create sends when --schema is not given: { Name: { title: {} } }
DefaultSchema == "{\"Name\":{\"title\":{}}}"

\* database create --title T --parent ID [--schema JSON], from createNotionClient() on
databaseCreateWith(notion, f, format, title, parent, schema, context, resp, debug) ==
  IF notion.kind = "throw"
  THEN Caught(f, <<>>, <<>>, notion.val, "Create database", context, debug)
  ELSE IF Truthy(schema) /\ ~ParsesAsJson(schema)
  THEN InvalidJson(f, "X Invalid schema JSON", "  Schema must be valid JSON")
  ELSE Called(f, <<Call("databases.create", notion.val,
                        [parent |-> parent, title |-> title,
                         properties |-> IF Truthy(schema) THEN schema ELSE DefaultSchema])>>,
              resp, "Create database", context, debug,
              Created("database", title), format)

databaseCreate(f, root, title, parent, schema, resp, debug) ==
  IF title = Undef THEN MissingOption(f, "-t, --title <title>")
  ELSE IF parent = Undef THEN MissingOption(f, "-p, --parent <id>")
  ELSE databaseCreateWith(createNotionClient(f), f, getFormat(CommandObject(root)), title,
                          parent, schema, <<(<<K_title, title>>), (<<K_parent, parent>>)>>,
                          resp, debug)

\* The update a database update sends: the fields the options set.
DatabaseUpdateOf(title, schema, archive, unarchive) ==
  [title |-> IF Truthy(title) THEN title ELSE Undef,
   properties |-> IF Truthy(schema) THEN schema ELSE Undef,
   archived |-> IF archive THEN "true" ELSE IF unarchive THEN "false" ELSE Undef]

\* database update <database-id> [--title T] [--schema JSON] [--archive|--unarchive],
\* from createNotionClient() on
databaseUpdateWith(notion, f, format, databaseId, schema, update, context, resp, debug) ==
  IF notion.kind = "throw"
  THEN Caught(f, <<>>, <<>>, notion.val, "Update database", context, debug)
  ELSE IF Truthy(schema) /\ ~ParsesAsJson(schema)
  THEN InvalidJson(f, "X Invalid schema JSON", "  Schema must be valid JSON")
  ELSE IF update.title = Undef /\ update.properties = Undef /\ update.archived = Undef
  THEN Outcome(f, <<>>, <<>>,
         Exited(<<Text("X No updates specified"),
                  Text("  Use --title, --schema, --archive, or --unarchive")>>, 1))
  ELSE Called(f, <<Call("databases.update", notion.val,
                        [database_id |-> databaseId, update |-> update])>>,
              resp, "Update database", context, debug,
              Updated("database"), format)

databaseUpdate(f, root, databaseId, title, schema, archive, unarchive, resp, debug) ==
  IF databaseId = Undef THEN MissingArgument(f, "database-id")
  ELSE databaseUpdateWith(createNotionClient(f), f, getFormat(CommandObject(root)), databaseId,
                          schema, DatabaseUpdateOf(title, schema, archive, unarchive),
                          <<(<<K_databaseId, databaseId>>)>> \o OptEntry(K_title, title)
                            \o OptEntry(K_schema, schema)
                            \o FlagEntry(K_archive, archive) \o FlagEntry(K_unarchive, unarchive),
                          resp, debug)

\* ---------------------------------------------------------------- inputs of the model

RootFormats == Formats \cup {"xml"}

\* The environment of an invocation: the root --format option and whether
\* DEBUG is set (DEBUG is tried with the default format).
Environments ==
  {[root |-> r, debug |-> FALSE] : r \in RootFormats} \cup {[root |-> "toon", debug |-> TRUE]}
LoginTokens == {Undef} \cup Tokens
OptionalIds == {Undef} \cup Ids
OptionalTitles == {Undef} \cup Titles

\* The credential files an invocation can find: none, files it cannot use,
\* and every record saveConfig can have written.
InitialFs ==
  {FsFresh}
    \cup {[dir |-> TRUE, file |-> x] :
            x \in {FileAbsent, FileUnreadable, FileGarbage, FileJsonNull}}
    \cup {[dir |-> TRUE, file |-> FileJson(JsonStringify(c))] : c \in Config}

\* Errors handed to the classifier: with or without code, status, message.
ErrorCodes ==
  {Undef, "", "unauthorized", "restricted_resource", "object_not_found", "rate_limited",
   "invalid_json", "invalid_request", "validation_error", "conflict_error",
   "service_unavailable", "internal_server_error", "ENOTFOUND", "ECONNREFUSED"}
ErrorStatuses == {0, 400, 401, 403, 404, 418, 429, 500, 502, 503, 504}
ErrorMessages == {Undef, "boom"}
ErrorValues ==
  [code : ErrorCodes, status : {0, 404}, message : ErrorMessages]
    \cup [code : {Undef, ""}, status : ErrorStatuses, message : ErrorMessages]

\* Contexts handed to the classifier: any of these fields, in this order.
ContextKeys == <<K_pageId, K_notionToken, K_API_TOKEN, K_clientSecret>>
ContextValues == {"p1", "tokA"}

RECURSIVE ContextsOver(_)
ContextsOver(keys) ==
  IF keys = <<>> THEN {<<>>}
  ELSE LET rest == ContextsOver(Tail(keys))
       IN rest \cup {<<(<<Head(keys), v>>)>> \o c : v \in ContextValues, c \in rest}

HandlerContexts == ContextsOver(ContextKeys)

\* ---------------------------------------------------------------- state machine

NoInputs == [none |-> TRUE]
NoReturn == [kind |-> "none", val |-> FALSE]
NotRun == [exited |-> FALSE, code |-> 0]
Idle(f) == [op |-> "idle", pre |-> f, in |-> NoInputs]

InitCommon ==
  /\ last = Idle(fs)
  /\ ret = NoReturn
  /\ calls = <<>>
  /\ out = <<>>
  /\ err = <<>>
  /\ exitCode = NotRun
  /\ reg = [known |-> FALSE, saved |-> FALSE, config |-> NoInputs]
  /\ procs = <<>>

\* The exit status of the process: the one given to process.exit, or 0 when
\* the action returns.
ExitStatus == IF exitCode.exited THEN exitCode.code ELSE 0

\* The outcome of a command becomes the state.
Install(op, in, o) ==
  /\ fs' = o.fs
  /\ last' = [op |-> op, pre |-> fs, in |-> in]
  /\ ret' = NoReturn
  /\ calls' = o.calls
  /\ out' = o.out
  /\ err' = o.st.lines
  /\ exitCode' = [exited |-> o.st.exited, code |-> o.st.code]
  /\ UNCHANGED <<reg, procs>>

\* The command of the recorded inputs, run on file system f.
Run(op, in, f) ==
  CASE op = "auth login" -> authLogin(f, in.root, in.token, in.input, in.resp, in.debug)
    [] op = "auth logout" -> authLogout(f, in.root)
    [] op = "auth status" -> authStatus(f, in.root, in.resp, in.debug)
    [] op = "page list" -> pageList(f, in.root, in.limit, in.resp, in.debug)
    [] op = "page get" -> pageGet(f, in.root, in.pageId, in.content, in.resp, in.resp2, in.debug)
    [] op = "page create" ->
         pageCreate(f, in.root, in.title, in.parent, in.content, in.resp, in.debug)
    [] op = "page update" ->
         pageUpdate(f, in.root, in.pageId, in.title, in.archive, in.unarchive, in.resp, in.debug)
    [] op = "database list" -> databaseList(f, in.root, in.limit, in.resp, in.debug)
    [] op = "database get" -> databaseGet(f, in.root, in.databaseId, in.resp, in.debug)
    [] op = "database query" ->
         databaseQuery(f, in.root, in.databaseId, in.filter, in.sorts, in.limit, in.resp,
                       in.debug)
    [] op = "database create" ->
         databaseCreate(f, in.root, in.title, in.parent, in.schema, in.resp, in.debug)
    [] op = "database update" ->
         databaseUpdate(f, in.root, in.databaseId, in.title, in.schema, in.archive,
                        in.unarchive, in.resp, in.debug)

\* The token a login is about: the argument, or the trimmed answer to the prompt.
LoginToken(in) == IF Truthy(in.token) THEN in.token ELSE IF Truthy(in.input) THEN trim(in.input) ELSE Undef

\* The history of the auth commands: a login that ends with status 0 is the
\* last successful login; a logout that runs forgets it.
InstallLogin(in, o) ==
  /\ Install("auth login", in, o)
  /\ lastAuth' = IF lastAuth.kind # "untracked" /\ ~o.st.exited
                 THEN [kind |-> "login", token |-> LoginToken(in)]
                 ELSE lastAuth

AuthLogin ==
  /\ last.op = "idle"
  /\ \E env \in Environments, token \in LoginTokens, input \in PromptInputs :
       \E resp \in ResponsesFor(LoginToken([token |-> token, input |-> input])) :
         /\ Truthy(token) => input = Null
         /\ InstallLogin([root |-> env.root, token |-> token, input |-> input, resp |-> resp,
                          debug |-> env.debug],
                         authLogin(fs, env.root, token, input, resp, env.debug))

AuthLogout ==
  /\ last.op = "idle"
  /\ \E env \in Environments :
       /\ Install("auth logout", [root |-> env.root], authLogout(fs, env.root))
       /\ lastAuth' = IF lastAuth.kind # "untracked"
                      THEN [kind |-> "logout", token |-> Undef]
                      ELSE lastAuth

AuthStatus ==
  /\ last.op = "idle"
  /\ \E env \in Environments, resp \in Responses :
       /\ Install("auth status", [root |-> env.root, resp |-> resp, debug |-> env.debug],
                  authStatus(fs, env.root, resp, env.debug))
       /\ UNCHANGED lastAuth

PageList ==
  /\ last.op = "idle"
  /\ \E env \in Environments, limit \in LimitArgs, resp \in Responses :
       /\ Install("page list",
                  [root |-> env.root, limit |-> limit, resp |-> resp, debug |-> env.debug],
                  pageList(fs, env.root, limit, resp, env.debug))
       /\ UNCHANGED lastAuth

PageGet ==
  /\ last.op = "idle"
  /\ \E env \in Environments, pageId \in OptionalIds, content \in BOOLEAN,
        resp \in Responses, resp2 \in Responses :
       /\ (~content \/ ~resp.ok) => resp2 = Ok
       /\ Install("page get",
                  [root |-> env.root, pageId |-> pageId, content |-> content, resp |-> resp,
                   resp2 |-> resp2, debug |-> env.debug],
                  pageGet(fs, env.root, pageId, content, resp, resp2, env.debug))
       /\ UNCHANGED lastAuth

PageCreate ==
  /\ last.op = "idle"
  /\ \E env \in Environments, title \in OptionalTitles, parent \in OptionalIds,
        content \in {Undef, "Hello"}, resp \in Responses :
       /\ Install("page create",
                  [root |-> env.root, title |-> title, parent |-> parent, content |-> content,
                   resp |-> resp, debug |-> env.debug],
                  pageCreate(fs, env.root, title, parent, content, resp, env.debug))
       /\ UNCHANGED lastAuth

PageUpdate ==
  /\ last.op = "idle"
  /\ \E env \in Environments, pageId \in OptionalIds, title \in OptionalTitles,
        archive \in BOOLEAN, unarchive \in BOOLEAN, resp \in Responses :
       /\ Install("page update",
                  [root |-> env.root, pageId |-> pageId, title |-> title, archive |-> archive,
                   unarchive |-> unarchive, resp |-> resp, debug |-> env.debug],
                  pageUpdate(fs, env.root, pageId, title, archive, unarchive, resp, env.debug))
       /\ UNCHANGED lastAuth

DatabaseList ==
  /\ last.op = "idle"
  /\ \E env \in Environments, limit \in LimitArgs, resp \in Responses :
       /\ Install("database list",
                  [root |-> env.root, limit |-> limit, resp |-> resp, debug |-> env.debug],
                  databaseList(fs, env.root, limit, resp, env.debug))
       /\ UNCHANGED lastAuth

DatabaseGet ==
  /\ last.op = "idle"
  /\ \E env \in Environments, databaseId \in OptionalIds, resp \in Responses :
       /\ Install("database get",
                  [root |-> env.root, databaseId |-> databaseId, resp |-> resp, debug |-> env.debug],
                  databaseGet(fs, env.root, databaseId, resp, env.debug))
       /\ UNCHANGED lastAuth

DatabaseQuery ==
  /\ last.op = "idle"
  /\ \E env \in Environments, databaseId \in OptionalIds, filter \in JsonOptions,
        sorts \in JsonOptions, limit \in LimitArgs, resp \in Responses :
       /\ Install("database query",
                  [root |-> env.root, databaseId |-> databaseId, filter |-> filter,
                   sorts |-> sorts, limit |-> limit, resp |-> resp, debug |-> env.debug],
                  databaseQuery(fs, env.root, databaseId, filter, sorts, limit, resp, env.debug))
       /\ UNCHANGED lastAuth

DatabaseCreate ==
  /\ last.op = "idle"
  /\ \E env \in Environments, title \in OptionalTitles, parent \in OptionalIds,
        schema \in JsonOptions, resp \in Responses :
       /\ Install("database create",
                  [root |-> env.root, title |-> title, parent |-> parent, schema |-> schema,
                   resp |-> resp, debug |-> env.debug],
                  databaseCreate(fs, env.root, title, parent, schema, resp, env.debug))
       /\ UNCHANGED lastAuth

DatabaseUpdate ==
  /\ last.op = "idle"
  /\ \E env \in Environments, databaseId \in OptionalIds, title \in OptionalTitles,
        schema \in JsonOptions, archive \in BOOLEAN, unarchive \in BOOLEAN,
        resp \in Responses :
       /\ Install("database update",
                  [root |-> env.root, databaseId |-> databaseId, title |-> title,
                   schema |-> schema, archive |-> archive, unarchive |-> unarchive,
                   resp |-> resp, debug |-> env.debug],
                  databaseUpdate(fs, env.root, databaseId, title, schema, archive, unarchive,
                                 resp, env.debug))
       /\ UNCHANGED lastAuth

\* The process has ended; the next invocation starts from the file system it left.
NextInvocation ==
  /\ last.op # "idle"
  /\ last' = Idle(fs)
  /\ ret' = NoReturn
  /\ calls' = <<>>
  /\ out' = <<>>
  /\ err' = <<>>
  /\ exitCode' = NotRun
  /\ UNCHANGED <<fs, reg, procs, lastAuth>>

\* The command-line program, started on any credential file.
Init ==
  /\ fs \in InitialFs
  /\ lastAuth = [kind |-> "untracked", token |-> Undef]
  /\ InitCommon

Next ==
  \/ AuthLogin
  \/ AuthLogout
  \/ AuthStatus
  \/ PageList
  \/ PageGet
  \/ PageCreate
  \/ PageUpdate
  \/ DatabaseList
  \/ DatabaseGet
  \/ DatabaseQuery
  \/ DatabaseCreate
  \/ DatabaseUpdate
  \/ NextInvocation

Spec == Init /\ [][Next]_vars

\* The auth commands alone, started with no credential file.
InitAuth ==
  /\ fs = FsFresh
  /\ lastAuth = [kind |-> "none", token |-> Undef]
  /\ InitCommon

NextAuth ==
  \/ AuthLogin
  \/ AuthLogout
  \/ AuthStatus
  \/ NextInvocation

SpecAuth == InitAuth /\ [][NextAuth]_vars

\* ---------------------------------------------------------------- library calls

\* A call of a library function becomes the state.
Called1(op, in, f, r, cs) ==
  /\ fs' = f
  /\ last' = [op |-> op, pre |-> fs, in |-> in]
  /\ ret' = r
  /\ calls' = cs
  /\ UNCHANGED <<out, err, exitCode, lastAuth>>

LoadConfigCall ==
  /\ Called1("loadConfig", NoInputs, fs, loadConfig(fs), <<>>)
  /\ UNCHANGED <<reg, procs>>

SaveConfigCall ==
  \E config \in Config :
    /\ Called1("saveConfig", [config |-> config], saveConfig(fs, config), Value(Undef), <<>>)
    /\ reg' = [known |-> TRUE, saved |-> TRUE, config |-> config]
    /\ UNCHANGED procs

\* deleteConfig() returned or raised.
Deleted(r) ==
  /\ Called1("deleteConfig", NoInputs, IF r.kind = "value" THEN r.val ELSE fs,
             IF r.kind = "value" THEN Value(Undef) ELSE r, <<>>)
  /\ reg' = IF r.kind = "value" THEN [known |-> TRUE, saved |-> FALSE, config |-> NoInputs]
            ELSE reg
  /\ UNCHANGED procs

DeleteConfigCall == Deleted(deleteConfig(fs))

RequireAuthCall ==
  /\ Called1("requireAuth", NoInputs, fs, requireAuth(fs), <<>>)
  /\ UNCHANGED <<reg, procs>>

\* validateToken(token) returned or raised.
Validated(in, v) ==
  /\ Called1("validateToken", in, fs, v.ret, v.calls)
  /\ UNCHANGED <<reg, procs>>

ValidateTokenCall ==
  \E token \in Tokens : \E resp \in ResponsesFor(token) :
    Validated([token |-> token, resp |-> resp], validateToken(token, resp))

\* Something else than this program rewrites the credential file.
EditFile ==
  \E x \in {FileUnreadable, FileGarbage, FileJsonNull} :
    /\ fs' = [dir |-> TRUE, file |-> x]
    /\ last' = [op |-> "edit", pre |-> fs, in |-> NoInputs]
    /\ ret' = NoReturn
    /\ calls' = <<>>
    /\ reg' = [known |-> FALSE, saved |-> FALSE, config |-> NoInputs]
    /\ UNCHANGED <<out, err, exitCode, procs, lastAuth>>

\* The functions of config.ts and validateToken, called in any order.
InitLib ==
  /\ fs = FsFresh
  /\ lastAuth = [kind |-> "untracked", token |-> Undef]
  /\ InitCommon

NextLib ==
  \/ LoadConfigCall
  \/ SaveConfigCall
  \/ DeleteConfigCall
  \/ RequireAuthCall
  \/ ValidateTokenCall
  \/ EditFile

SpecLib == InitLib /\ [][NextLib]_vars

\* ---------------------------------------------------------------- the error classifier alone

\* handleNotionError(error, operation, context) ended the process or returned.
Handled(in, h) ==
  /\ last' = [op |-> "handleNotionError", pre |-> fs, in |-> in]
  /\ ret' = IF h.exited THEN NoReturn ELSE Value(Undef)
  /\ err' = h.lines
  /\ exitCode' = [exited |-> h.exited, code |-> h.code]
  /\ UNCHANGED <<fs, calls, out, reg, procs, lastAuth>>

HandleNotionErrorCall ==
  /\ last.op = "idle"
  /\ \E error \in ErrorValues, context \in HandlerContexts, debug \in BOOLEAN :
       Handled([error |-> error, operation |-> "Get page", context |-> context,
                debug |-> debug],
               handleNotionError(error, "Get page", context, debug))

InitErr == InitLib

NextErr == HandleNotionErrorCall

SpecErr == InitErr /\ [][NextErr]_vars

\* ---------------------------------------------------------------- properties

\* What the credential file holds, read off the file itself.
HasRecord(f) == f.file.kind = "json"
FieldOf(f, k) == LookupFrom(f.file.pairs, k, Len(f.file.pairs))
HoldsToken(f) == HasRecord(f) /\ Truthy(FieldOf(f, "notionToken"))
HasNoTokenField(f) == HasRecord(f) /\ FieldOf(f, "notionToken") = Undef

\* C1: after any sequence of auth login, auth logout and auth status from no
\* credential file, a record holding a token exists exactly when some login
\* succeeded and no logout ran since, and the stored token is the token of the
\* most recent successful login.
C1_AuthLifecycle ==
  /\ HoldsToken(fs) <=> lastAuth.kind = "login"
  /\ lastAuth.kind = "login" => FieldOf(fs, "notionToken") = lastAuth.token
  /\ ~HoldsToken(fs) => ~existsSync(fs)

\* A second successful login replaced the token of the first.
C1_Witness ==
  /\ last.op = "auth login"
  /\ HoldsToken(last.pre)
  /\ HoldsToken(fs)
  /\ FieldOf(fs, "notionToken") # FieldOf(last.pre, "notionToken")
  /\ lastAuth = [kind |-> "login", token |-> FieldOf(fs, "notionToken")]

\* The login got as far as validateToken, which answered false.
LoginRejected ==
  /\ last.op = "auth login"
  /\ Truthy(last.in.token) \/ Truthy(last.in.input)
  /\ ~last.in.resp.ok

\* C2: auth login with a token for which validateToken returns false exits with
\* a nonzero status after an invalid-token message and never saves: the
\* credential file and its directory are exactly as before the invocation.
C2_InvalidLoginWritesNothing ==
  LoginRejected =>
    /\ exitCode.exited
    /\ ExitStatus # 0
    /\ \E i \in DOMAIN err : err[i] = Text("X Invalid token")
    /\ fs = last.pre
    /\ out = <<>>

\* A rejected login over an existing record, which is still there.
C2_Witness ==
  /\ LoginRejected
  /\ HoldsToken(last.pre)
  /\ last.in.token # Undef
  /\ last.in.token # FieldOf(last.pre, "notionToken")
  /\ fs = last.pre
  /\ ExitStatus = 1

\* A property name contains the word, in any letter case.
ContainsAnyCase(key, word) ==
  \E i \in 0..(Len(key) - Len(word)) :
    \A j \in 1..Len(word) : LowerChar(key[i + j]) = word[j]

\* The context fields whose name contains "token" or "secret" in any letter case.
SensitiveNames ==
  {ContextKeys[i] : i \in {j \in DOMAIN ContextKeys :
                              \/ ContainsAnyCase(ContextKeys[j], K_token)
                              \/ ContainsAnyCase(ContextKeys[j], K_secret)}}

NameIsSensitive(key) == key \in SensitiveNames

\* Two contexts with the same fields, equal wherever the name is not sensitive.
DifferOnlyInSensitive(c1, c2) ==
  /\ Len(c1) = Len(c2)
  /\ \A i \in DOMAIN c1 :
       /\ c1[i][1] = c2[i][1]
       /\ ~NameIsSensitive(c1[i][1]) => c1[i][2] = c2[i][2]

\* The diagnostic has a line for the field: its value, or the redaction marker.
FieldPrinted(entry) ==
  \E k \in DOMAIN err :
    /\ err[k].key = entry[1]
    /\ IF NameIsSensitive(entry[1])
       THEN err[k].fmt = "    ${key}: [REDACTED]" /\ err[k].vals = <<>>
       ELSE err[k].fmt = "    ${key}: ${value}" /\ err[k].vals = <<ToStr(entry[2])>>

\* C3: in every branch of handleNotionError every field of the context is
\* appended to the diagnostic, a field whose name contains "token" or "secret"
\* in any letter case is printed as the redaction marker, and two contexts that
\* differ only in the values of such fields give the same diagnostic.
C3_ContextRedaction ==
  last.op = "handleNotionError" =>
    /\ \A i \in DOMAIN last.in.context : FieldPrinted(last.in.context[i])
    /\ \A c2 \in HandlerContexts :
         DifferOnlyInSensitive(last.in.context, c2) =>
           handleNotionError(last.in.error, last.in.operation, c2, last.in.debug).lines = err

\* An HTTP-status error with an upper-case credential field and a page id.
C3_Witness ==
  /\ last.op = "handleNotionError"
  /\ last.in.error = Err(Undef, 502, Undef)
  /\ last.in.context = <<(<<K_pageId, "p1">>), (<<K_API_TOKEN, "tokA">>)>>
  /\ \E k \in DOMAIN err : err[k] = Line("    ${key}: [REDACTED]", K_API_TOKEN, <<>>, 0)
  /\ \E k \in DOMAIN err : err[k] = Line("    ${key}: ${value}", K_pageId, <<"p1">>, 0)

\* The credentials of an invocation: the token in the credential file it found,
\* and the token given to auth login.
CredentialsInPlay ==
  (IF HoldsToken(last.pre) THEN {FieldOf(last.pre, "notionToken")} ELSE {})
    \cup (IF last.op = "auth login" /\ Truthy(LoginToken(last.in))
          THEN {LoginToken(last.in)} ELSE {})

\* C4: for every command and every failure of it, the credential in play never
\* appears in anything the invocation writes to the diagnostic stream.
C4_NoCredentialInDiagnostics ==
  last.op # "idle" =>
    \A i \in DOMAIN err : \A j \in DOMAIN err[i].vals :
      err[i].vals[j] \notin CredentialsInPlay

\* C5: requireAuth signals the not-authenticated error when no credential file
\* exists or the stored record has no token (an empty string is no token), and
\* otherwise returns exactly the stored token; after saveConfig of a record with
\* token t and no later delete, requireAuth returns t.
C5_RequireAuth ==
  last.op = "requireAuth" =>
    /\ fs = last.pre
    /\ IF HoldsToken(last.pre)
       THEN ret.kind = "value" /\ ret.val = FieldOf(last.pre, "notionToken")
       ELSE ret.kind = "throw" /\ ret.val.message = NotAuthenticatedMessage
    /\ (reg.known /\ reg.saved /\ Truthy(reg.config.notionToken)) =>
         ret.kind = "value" /\ ret.val = reg.config.notionToken
    /\ (reg.known /\ ~reg.saved) => ret.kind = "throw"

\* requireAuth returned the token of the last saveConfig.
C5_Witness ==
  /\ last.op = "requireAuth"
  /\ reg.known /\ reg.saved
  /\ reg.config.notionToken = "tokB"
  /\ ret = Value("tokB")

\* C6: the credential store is a single-record register: loadConfig returns a
\* record equal to the argument of the last saveConfig if no deleteConfig
\* followed it and absent otherwise; saveConfig creates the directory when
\* missing and replaces any earlier record; deleteConfig on an absent file
\* changes nothing and raises nothing.
C6_SingleRecordRegister ==
  /\ (reg.known /\ reg.saved) => loadConfig(fs) = Value(reg.config) /\ fs.dir
  /\ (reg.known /\ ~reg.saved) => loadConfig(fs) = Value(NullConfig) /\ ~existsSync(fs)
  /\ last.op = "loadConfig" /\ reg.known =>
       ret = Value(IF reg.saved THEN reg.config ELSE NullConfig)
  /\ last.op = "saveConfig" =>
       fs = [dir |-> TRUE, file |-> FileJson(JsonStringify(last.in.config))]
  /\ last.op = "deleteConfig" =>
       /\ ret.kind = "value"
       /\ ~existsSync(fs)
       /\ ~existsSync(last.pre) => fs = last.pre

\* loadConfig returned the second of two different saved records, the first of
\* which had a field the second has not.
C6_Witness ==
  /\ last.op = "loadConfig"
  /\ reg.known /\ reg.saved
  /\ reg.config = [notionToken |-> "tokB", defaultWorkspace |-> Undef]
  /\ ret = Value(reg.config)

\* C7: loadConfig never raises: when the credential file is missing, unreadable
\* or does not parse, it returns absent (null) and leaves the file system
\* unchanged.
C7_LoadConfigNeverRaises ==
  last.op = "loadConfig" =>
    /\ ret.kind = "value"
    /\ fs = last.pre
    /\ last.pre.file.kind \in {"absent", "unreadable", "garbage"} => ret.val = NullConfig

\* loadConfig ran on a file that does not parse.
C7_Witness ==
  /\ last.op = "loadConfig"
  /\ last.pre.file.kind = "garbage"
  /\ ret = Value(NullConfig)
  /\ fs = last.pre

\* The operations that consult the credential record.
Consults(op) == op \notin {"idle", "auth login"}

\* The same invocation, had the credential file been absent.
WithoutFile == Run(last.op, last.in, [last.pre EXCEPT !.file = FileAbsent])

\* C8: a credential record that has no token field is observationally the
\* same as an absent record for every operation that consults it: requireAuth,
\* auth logout, auth status and every page and database command give the same
\* outputs, exit status and remote calls.
C8_TokenlessIsAbsent ==
  (Consults(last.op) /\ HasNoTokenField(last.pre)) =>
    /\ out = WithoutFile.out
    /\ err = WithoutFile.st.lines
    /\ exitCode = [exited |-> WithoutFile.st.exited, code |-> WithoutFile.st.code]
    /\ calls = WithoutFile.calls
    /\ requireAuth(last.pre) = requireAuth([last.pre EXCEPT !.file = FileAbsent])

\* A page command found a record with a workspace and no token, and failed.
C8_Witness ==
  /\ last.op = "page get"
  /\ HasNoTokenField(last.pre)
  /\ FieldOf(last.pre, "defaultWorkspace") = "ws1"
  /\ last.in.pageId # Undef
  /\ calls = <<>>
  /\ ExitStatus = 1

\* C9: validateToken issues exactly one remote "who am I" call, returns true
\* exactly when that call succeeds, and returns false for every failure of it
\* without ever raising to its caller.
C9_ValidateToken ==
  last.op = "validateToken" =>
    /\ calls = <<Call("users.me", last.in.token, [none |-> TRUE])>>
    /\ ret.kind = "value"
    /\ ret.val = last.in.resp.ok
    /\ fs = last.pre

\* validateToken answered false to a network failure.
C9_Witness ==
  /\ last.op = "validateToken"
  /\ last.in.resp = Fail(Err(Undef, 0, "fetch failed"))
  /\ ret = Value(FALSE)
  /\ Len(calls) = 1

\* C10: every invocation of handleNotionError, for every error value (with or
\* without code, status or message), writes a diagnostic and then ends the
\* process with a nonzero status; it never returns to the command.
C10_HandlerAlwaysExits ==
  last.op = "handleNotionError" =>
    /\ exitCode.exited
    /\ exitCode.code # 0
    /\ Len(err) > 0
    /\ ret = NoReturn

\* An error with no code, no status and no message ended the process.
C10_Witness ==
  /\ last.op = "handleNotionError"
  /\ last.in.error = Err(Undef, 0, Undef)
  /\ exitCode = [exited |-> TRUE, code |-> 1]
  /\ Len(err) > 0

\* The first line of each branch's diagnostic.
BranchHeads ==
  {"X ${operation} failed", "X Network error", "X ${operation} failed: ${message}"}

\* The lines of the diagnostic from the second on, as many as the hint has.
HintIs(hint) == Len(err) >= 1 + Len(hint) /\ SubSeq(err, 2, 1 + Len(hint)) = hint

C12_NetworkFailureDiagnostic ==
  (/\ last.op = "handleNotionError"
   /\ last.in.error.code \in {"ENOTFOUND", "ECONNREFUSED"}
   /\ last.in.error.status = 0) =>
    /\ err[1] = Text("X Network error")
    /\ err[2] = Text("  Could not connect to Notion API. Check your internet connection.")

\* C13: an invocation whose output-format name is none of toon, json, plain is
\* rejected as invalid input: it exits nonzero with a diagnostic, issues no
\* remote call and writes no result.
C13_UnknownFormatRejected ==
  (last.op # "idle" /\ last.in.root \notin Formats) =>
    /\ ExitStatus # 0
    /\ Len(err) > 0
    /\ calls = <<>>
    /\ out = <<>>

\* An option that is given and is not JSON.
NotJson(text) == text \in NonJsonTexts

\* The invocation got past commander and its argument validation fails.
ValidationFails ==
  \/ /\ last.op = "database query"
     /\ last.in.databaseId # Undef
     /\ NotJson(last.in.filter) \/ NotJson(last.in.sorts)
  \/ /\ last.op = "database create"
     /\ last.in.title # Undef /\ last.in.parent # Undef
     /\ NotJson(last.in.schema)
  \/ /\ last.op = "database update"
     /\ last.in.databaseId # Undef
     /\ \/ NotJson(last.in.schema)
        \/ /\ last.in.title = Undef /\ last.in.schema = Undef
           /\ ~last.in.archive /\ ~last.in.unarchive
  \/ /\ last.op = "page create"
     /\ last.in.title # Undef /\ last.in.parent = Undef
  \/ /\ last.op = "page update"
     /\ last.in.pageId # Undef
     /\ last.in.title = Undef /\ ~last.in.archive /\ ~last.in.unarchive

InvalidInputHeads ==
  {Text("X Invalid filter JSON"), Text("X Invalid sorts JSON"), Text("X Invalid schema JSON"),
   Text("X Parent page or database ID is required"), Text("X No updates specified")}

\* C14, as claimed: in every credential state, a command whose argument
\* validation fails exits nonzero with an invalid-input message and issues no
\* remote call before exiting.
C14_Original ==
  ValidationFails =>
    /\ ExitStatus # 0
    /\ calls = <<>>
    /\ Len(err) > 0 /\ err[1] \in InvalidInputHeads

\* C14, amended: a command whose argument validation fails exits nonzero and
\* issues no remote call in every credential state; its diagnostic is the
\* invalid-input message when a token is on file and the not-authenticated
\* diagnostic when none is.
C14_ValidationBeforeRemoteCall ==
  ValidationFails =>
    /\ exitCode = [exited |-> TRUE, code |-> 1]
    /\ calls = <<>>
    /\ out = <<>>
    /\ fs = last.pre
    /\ Len(err) > 0
    /\ IF HoldsToken(last.pre)
       THEN err[1] \in InvalidInputHeads
       ELSE err[1] = Line("X ${operation} failed: ${message}", <<>>,
                          <<err[1].vals[1], NotAuthenticatedMessage>>, 0)

\* A database query with a filter that is not JSON, with a token on file.
C14_Witness ==
  /\ last.op = "database query"
  /\ last.in.filter = "not-json"
  /\ HoldsToken(last.pre)
  /\ err[1] = Text("X Invalid filter JSON")
  /\ calls = <<>>
  /\ ExitStatus = 1

\* The number a --limit text asks for, when it asks for one.
AsksFor(text, n) ==
  \/ text = "7" /\ n = 7
  \/ text = "100" /\ n = 100
  \/ text = "250" /\ n = 250

\* The page size of the request an invocation sent.
PageSizeSent == calls[1].req.page_size

\* C15: for every value of --limit given to page list, database list or
\* database query, the page size sent to the remote service never exceeds 100
\* and equals the requested limit whenever that limit is at most 100.  (A
\* limit that is not a number is sent as NaN, which is no size above 100.)
C15_PageSizeClamped ==
  (last.op \in {"page list", "database list", "database query"} /\ calls # <<>>) =>
    /\ ~(~PageSizeSent.nan /\ PageSizeSent.n > 100)
    /\ \A n \in 0..100 : AsksFor(last.in.limit.text, n) => PageSizeSent = Num(n)
    /\ \A n \in 101..250 : AsksFor(last.in.limit.text, n) => PageSizeSent = Num(100)

\* A database query asked for 250 entries and sent a page size of 100.
C15_Witness ==
  /\ last.op = "database query"
  /\ last.in.limit.text = "250"
  /\ calls # <<>>
  /\ PageSizeSent = Num(100)

\* ---------------------------------------------------------------- page titles

\* A rich-text item, and the title arrays a property can hold.
RichText(text) == [plain_text |-> text]
TitleArrays ==
  {<<>>, <<RichText("")>>, <<RichText("A")>>, <<RichText("B")>>,
   <<RichText(""), RichText("A")>>}

\* A property of a page, and a property that is not there.
Properties == [type : {"title", "rich_text"}, title : TitleArrays]
NoProperty == [type |-> Undef, title |-> <<>>]

\* page.properties as Object.entries gives it: <<name, property>> pairs with
\* distinct names, in iteration order.
PropertyNames == {"title", "Name", "Task"}
MaxProperties == 3
PropertyMaps ==
  UNION {{m \in [1..n -> PropertyNames \X Properties] :
            \A i, j \in 1..n : i # j => m[i][1] # m[j][1]} : n \in 0..MaxProperties}

\* A page object: with a property map, or without the field.
Pages == {[properties |-> m, missing |-> FALSE] : m \in PropertyMaps}
           \cup {[properties |-> <<>>, missing |-> TRUE]}

\* page.properties?.[name]
PropertyNamed(page, name) ==
  IF \E i \in DOMAIN page.properties : page.properties[i][1] = name
  THEN page.properties[CHOOSE i \in DOMAIN page.properties : page.properties[i][1] = name][2]
  ELSE NoProperty

\* prop.title?.[0]?.plain_text
FirstPlainText(prop) == IF Len(prop.title) = 0 THEN Undef ELSE prop.title[1].plain_text

\* for (const [_key, prop] of Object.entries(page.properties || {})) ...; return 'Untitled'
RECURSIVE ScanForTitle(_, _)
ScanForTitle(entries, i) ==
  IF i > Len(entries) THEN "Untitled"
  ELSE IF entries[i][2].type = "title" /\ Truthy(FirstPlainText(entries[i][2]))
  THEN FirstPlainText(entries[i][2])
  ELSE ScanForTitle(entries, i + 1)

\* extractTitle(page: any): string, of the page commands
extractTitleScanOnly(page) == ScanForTitle(page.properties, 1)

extractTitle(page) ==
  IF Truthy(FirstPlainText(PropertyNamed(page, "title")))
  THEN FirstPlainText(PropertyNamed(page, "title"))
  ELSE IF Truthy(FirstPlainText(PropertyNamed(page, "Name")))
  THEN FirstPlainText(PropertyNamed(page, "Name"))
  ELSE ScanForTitle(page.properties, 1)

\* extractTitle applied to a page.
ExtractTitleCall ==
  /\ last.op = "idle"
  /\ \E page \in Pages :
       /\ last' = [op |-> "extractTitle", pre |-> fs, in |-> [page |-> page]]
       /\ ret' = Value(extractTitle(page))
  /\ UNCHANGED <<fs, calls, out, err, exitCode, reg, procs, lastAuth>>

\* A database object: its own title, a rich-text array (empty when the field
\* is not there), and a property map.
Databases ==
  {[title |-> t, properties |-> m, missing |-> FALSE] :
     t \in TitleArrays, m \in {pm \in PropertyMaps : Len(pm) <= 1}}

\* A database title read off the property map, as a page title is.
databaseExtractTitleFromProperties(db) == extractTitle(db)

\* extractTitle(db: any): string, of the database commands
databaseExtractTitle(db) ==
  IF Truthy(FirstPlainText(db)) THEN db.title[1].plain_text ELSE "Untitled"

\* The extractTitle of the database commands applied to a database.
DatabaseExtractTitleCall ==
  /\ last.op = "idle"
  /\ \E db \in Databases :
       /\ last' = [op |-> "database extractTitle", pre |-> fs, in |-> [db |-> db]]
       /\ ret' = Value(databaseExtractTitle(db))
  /\ UNCHANGED <<fs, calls, out, err, exitCode, reg, procs, lastAuth>>

InitTitle == InitLib

NextTitle ==
  \/ ExtractTitleCall
  \/ DatabaseExtractTitleCall

SpecTitle == InitTitle /\ [][NextTitle]_vars

\* The entries of the page that have title text, and those of kind title.
TextOf(i) == last.in.page.properties[i][2].title[1].plain_text
HasText(i) ==
  /\ Len(last.in.page.properties[i][2].title) > 0
  /\ TextOf(i) # ""
Named(name) == {i \in DOMAIN last.in.page.properties : last.in.page.properties[i][1] = name}
Titled ==
  {i \in DOMAIN last.in.page.properties :
     last.in.page.properties[i][2].type = "title" /\ HasText(i)}

\* C16: page title extraction is the text of the property named "title" if it
\* has title text, else the text of the property named "Name" if it has title
\* text, else the text of the first property in iteration order whose kind is
\* title and that has text, else "Untitled".
C16_TitleReference ==
  last.op = "extractTitle" =>
    /\ ret.kind = "value"
    /\ IF \E i \in Named("title") : HasText(i)
       THEN \E i \in Named("title") : ret.val = TextOf(i)
       ELSE IF \E i \in Named("Name") : HasText(i)
       THEN \E i \in Named("Name") : ret.val = TextOf(i)
       ELSE IF Titled # {}
       THEN \E i \in Titled : ret.val = TextOf(i) /\ \A j \in Titled : i <= j
       ELSE ret.val = "Untitled"

\* The property named "Name" won over a title-typed property that comes first.
C16_Witness ==
  /\ last.op = "extractTitle"
  /\ last.in.page.properties =
       <<(<<"Task", [type |-> "title", title |-> <<RichText("A")>>]>>),
         (<<"Name", [type |-> "rich_text", title |-> <<RichText("B")>>]>>)>>
  /\ ret = Value("B")

\* ---------------------------------------------------------------- JSON texts read back

\* JSON.parse reads the words of the text; white space between them means
\* nothing.
RECURSIVE WordsOf(_, _)
WordsOf(text, i) ==
  IF i > Len(text) THEN <<>> ELSE text[i].words \o WordsOf(text, i + 1)

WordAt(words, i) == IF i \in DOMAIN words THEN words[i] ELSE Word("end", "")
Parsed(value, next) == [ok |-> TRUE, val |-> value, next |-> next]
SyntaxError == [ok |-> FALSE, val |-> UndefinedValue, next |-> 0]

RECURSIVE ParseValue(_, _)
RECURSIVE ParseItems(_, _, _)
RECURSIVE ParseMembers(_, _, _)

\* The elements after `[`, up to the closing `]`.
ParseItems(words, i, items) ==
  LET item == ParseValue(words, i)
  IN  IF ~item.ok THEN SyntaxError
      ELSE IF IsPunct(WordAt(words, item.next), ",")
      THEN ParseItems(words, item.next + 1, Append(items, item.val))
      ELSE IF IsPunct(WordAt(words, item.next), "]")
      THEN Parsed(Arr(Append(items, item.val)), item.next + 1)
      ELSE SyntaxError

\* The members after `{`, up to the closing `}`.
ParseMembers(words, i, entries) ==
  IF WordAt(words, i).kind # "key" THEN SyntaxError
  ELSE LET value == ParseValue(words, i + 1)
           member == <<WordAt(words, i).s, value.val>>
       IN  IF ~value.ok THEN SyntaxError
           ELSE IF IsPunct(WordAt(words, value.next), ",")
           THEN ParseMembers(words, value.next + 1, Append(entries, member))
           ELSE IF IsPunct(WordAt(words, value.next), "}")
           THEN Parsed(Obj(Append(entries, member)), value.next + 1)
           ELSE SyntaxError

\* The value that starts at word i.
ParseValue(words, i) ==
  LET w == WordAt(words, i)
  IN  CASE w.kind = "quoted" -> Parsed(Str(w.s), i + 1)
        [] w.kind = "digits" -> Parsed(Number(Num(w.s)), i + 1)
        [] w.kind = "resource" -> Parsed(Resource(w.s), i + 1)
        [] w.kind = "literal" ->
             IF w.s = "null" THEN Parsed(NullValue, i + 1)
             ELSE Parsed(Bool(w.s = "true"), i + 1)
        [] w.kind = "punct" ->
             CASE w.s = "[]" -> Parsed(Arr(<<>>), i + 1)
               [] w.s = "{}" -> Parsed(Obj(<<>>), i + 1)
               [] w.s = "[" -> ParseItems(words, i + 1, <<>>)
               [] w.s = "{" -> ParseMembers(words, i + 1, <<>>)
               [] OTHER -> SyntaxError
        [] OTHER -> SyntaxError

\* JSON.parse(text): the value of the whole text, or a SyntaxError.
ParseText(text) ==
  LET words == WordsOf(text, 1)
      whole == ParseValue(words, 1)
  IN  IF whole.ok /\ whole.next = Len(words) + 1 THEN whole ELSE SyntaxError

\* ---------------------------------------------------------------- encoder inputs

\* Arrays and objects of at most MaxWidth members, nested MaxDepth deep.
MaxWidth == 2
MaxDepth == 2
ObjectKeys == {"a", "b"}

Scalars == {Str("x"), Number(Num(7)), Number(NaN), Bool(TRUE), NullValue}
FewScalars == {Str("x"), Number(Num(7))}
OneScalar == {Str("x")}

SeqsUpTo(S) == UNION {[1..n -> S] : n \in 0..MaxWidth}
DistinctKeys(entries) ==
  \A i, j \in DOMAIN entries : entries[i][1] = entries[j][1] => i = j
EntriesOver(S) == {e \in SeqsUpTo(ObjectKeys \X S) : DistinctKeys(e)}

\* The values over the scalars S that nest at most depth arrays and objects.
RECURSIVE ValuesOver(_, _)
ValuesOver(S, depth) ==
  IF depth = 0 THEN S
  ELSE LET inner == ValuesOver(S, depth - 1)
       IN  S \cup {Arr(items) : items \in SeqsUpTo(inner)}
             \cup {Obj(entries) : entries \in EntriesOver(inner)}

\* Every scalar one level deep, fewer scalars MaxDepth deep, and those under
\* one more object.
Values ==
  ValuesOver(Scalars, 1) \cup ValuesOver(FewScalars, MaxDepth)
    \cup {Obj(<<<<"a", v>>>>) : v \in ValuesOver(OneScalar, MaxDepth)}

\* encodePlain applied to a value, at the default indent.
EncodePlainCall ==
  /\ last.op = "idle"
  /\ \E data \in Values \cup {UndefinedValue} :
       /\ last' = [op |-> "encodePlain", pre |-> fs, in |-> [data |-> data]]
       /\ ret' = Value(encodePlain(data, 0))
  /\ UNCHANGED <<fs, calls, out, err, exitCode, reg, procs, lastAuth>>

\* encodeJson applied to a value.
EncodeJsonCall ==
  /\ last.op = "idle"
  /\ \E data \in Values :
       /\ last' = [op |-> "encodeJson", pre |-> fs, in |-> [data |-> data]]
       /\ ret' = Value(encodeJson(data))
  /\ UNCHANGED <<fs, calls, out, err, exitCode, reg, procs, lastAuth>>

\* formatOutput applied to a value and a format name.
FormatOutputCall ==
  /\ last.op = "idle"
  /\ \E data \in ValuesOver(Scalars, 1), format \in RootFormats :
       /\ last' = [op |-> "formatOutput", pre |-> fs,
                   in |-> [data |-> data, format |-> format]]
       /\ ret' = Value(formatOutput(data, format))
  /\ UNCHANGED <<fs, calls, out, err, exitCode, reg, procs, lastAuth>>

InitFormat == InitLib

NextFormat ==
  \/ EncodePlainCall
  \/ EncodeJsonCall
  \/ FormatOutputCall

SpecFormat == InitFormat /\ [][NextFormat]_vars

\* The fields, at any depth of data, whose value is an empty value of kind k.
RECURSIVE EmptyFieldCount(_, _)
RECURSIVE EmptyFieldsIn(_, _, _)
EmptyFieldsIn(members, i, k) ==
  IF i > Len(members) THEN 0
  ELSE EmptyFieldCount(members[i], k) + EmptyFieldsIn(members, i + 1, k)
EmptyFieldCount(data, k) ==
  CASE data.kind = "array" -> EmptyFieldsIn(data.val, 1, k)
    [] data.kind = "object" ->
         EmptyFieldsIn([i \in DOMAIN data.val |-> data.val[i][2]], 1, k)
           + Cardinality({i \in DOMAIN data.val :
                            data.val[i][2].kind = k /\ Len(data.val[i][2].val) = 0})
    [] OTHER -> 0

\* The lines of the returned text that end in a key followed by the word w,
\* and the key lines followed by a line that holds w alone.
EndsInline(line, w) ==
  /\ Len(line.words) >= 2
  /\ line.words[Len(line.words) - 1].kind = "key"
  /\ line.words[Len(line.words)] = Word("chars", w)
InlineLines(w) == {i \in DOMAIN ret.val : EndsInline(ret.val[i], w)}
BlockLines(w) ==
  {i \in DOMAIN ret.val :
     /\ i < Len(ret.val)
     /\ ret.val[i].words[Len(ret.val[i].words)].kind = "key"
     /\ ret.val[i + 1].words = <<Word("chars", w)>>}

\* C17: in the text encodePlain returns, every field whose value is an empty
\* object is on one line as `key: {}` and every field whose value is an empty
\* array is on one line as `key: []`, at every depth, and no key line is
\* followed by a line that holds `{}` or `[]` alone.
C17_EmptyValuesInline ==
  last.op = "encodePlain" =>
    /\ Cardinality(InlineLines("{}")) >= EmptyFieldCount(last.in.data, "object")
    /\ Cardinality(InlineLines("[]")) >= EmptyFieldCount(last.in.data, "array")
    /\ BlockLines("{}") = {}
    /\ BlockLines("[]") = {}

\* The indentation of each line when a value placed at indentation n has its
\* fields at n, the fields of an object under a key one unit deeper, and the
\* elements of an array at the indentation of the array.
RECURSIVE IndentsAt(_, _)
RECURSIVE IndentsOfItems(_, _, _)
RECURSIVE IndentsOfEntries(_, _, _)
IndentsOfItems(items, i, n) ==
  IF i > Len(items) THEN <<>>
  ELSE IndentsAt(items[i], n) \o IndentsOfItems(items, i + 1, n)
IndentsOfEntries(entries, i, n) ==
  IF i > Len(entries) THEN <<>>
  ELSE (IF IsPlainObject(entries[i][2])
        THEN <<n>> \o IndentsAt(entries[i][2], n + 1)
        ELSE <<n>> \o Tail(IndentsAt(entries[i][2], n)))
       \o IndentsOfEntries(entries, i + 1, n)
IndentsAt(data, n) ==
  CASE data.kind = "array" /\ Len(data.val) > 0 -> IndentsOfItems(data.val, 1, n)
    [] data.kind = "object" /\ Len(data.val) > 0 -> IndentsOfEntries(data.val, 1, n)
    [] OTHER -> <<n>>

\* C18: each line of the text encodePlain returns is indented by the number of
\* objects that enclose the object or array holding what the line renders: the
\* elements of an array stand at the indentation of the array's key, inside
\* nested objects too.
C18_IndentIsNestingDepth ==
  last.op = "encodePlain" =>
    [i \in DOMAIN ret.val |-> ret.val[i].ind] = IndentsAt(last.in.data, 0)

\* The numbers of a value are all finite.
RECURSIVE NumbersFinite(_)
NumbersFinite(data) ==
  CASE data.kind = "number" -> ~data.val.nan
    [] data.kind = "array" -> \A i \in DOMAIN data.val : NumbersFinite(data.val[i])
    [] data.kind = "object" -> \A i \in DOMAIN data.val : NumbersFinite(data.val[i][2])
    [] OTHER -> TRUE

\* The text encodeJson returned parses to the value it was given.
RoundTrips ==
  /\ ParseText(ret.val).ok
  /\ ParseText(ret.val).val = last.in.data

\* C20 as stated: for every value built from objects, arrays and string,
\* number, boolean and null scalars, parsing the text encodeJson returns gives
\* the value back, the keys in their order and the scalars the same.
C20_Original == last.op = "encodeJson" => RoundTrips

\* C20: for every value built from objects, arrays and string, finite number,
\* boolean and null scalars, parsing the text encodeJson returns gives the
\* value back, the keys in their order and the scalars the same.
C20_RoundTripOfFiniteValues ==
  last.op = "encodeJson" /\ NumbersFinite(last.in.data) => RoundTrips

\* An object with a number, and an array under its second key, round-trips.
C20_Witness ==
  /\ last.op = "encodeJson"
  /\ last.in.data = Obj(<<<<"b", Number(Num(7))>>, <<"a", Arr(<<Str("x")>>)>>>>)
  /\ Len(ret.val) = 6
  /\ RoundTrips

\* C19: formatOutput returns, unchanged, the text of encodeToon for the name
\* toon, of encodeJson for the name json and of encodePlain at indentation 0
\* for the name plain.
C19_OneEncoderPerFormat ==
  last.op = "formatOutput" /\ last.in.format \in Formats =>
    /\ ret.val.kind = "string"
    /\ ret.val.val = CASE last.in.format = "toon" -> encodeToon(last.in.data)
                       [] last.in.format = "json" -> encodeJson(last.in.data)
                       [] last.in.format = "plain" -> encodePlain(last.in.data, 0)

\* The name plain given with an object that the three encoders write
\* differently: the text is the one of encodePlain.
C19_Witness ==
  /\ last.op = "formatOutput"
  /\ last.in.format = "plain"
  /\ last.in.data = Obj(<<<<"a", Str("x")>>, <<"b", Number(Num(7))>>>>)
  /\ ret.val.val = <<TextLine(0, <<Word("key", "a"), Word("chars", "x")>>),
                     TextLine(0, <<Word("key", "b"), Word("digits", 7)>>)>>
  /\ ret.val.val # encodeJson(last.in.data)
  /\ ret.val.val # encodeToon(last.in.data)

\* The two ways an invocation may end.
EndsInSuccess ==
  /\ ExitStatus = 0
  /\ Len(out) = 1
  /\ out[1].kind = "string"
EndsInError ==
  /\ ExitStatus # 0
  /\ Len(err) > 0
  /\ out = <<>>

\* C22: every invocation ends in one of two ways: with exit status 0 and one
\* formatted result on standard output, or with a nonzero exit status, a
\* diagnostic, and nothing on standard output.
C22_SuccessOrError ==
  last.op # "idle" => EndsInSuccess \/ EndsInError

\* The page and database commands, and the invocations of them that commander
\* lets through to the action: the required arguments and options are given.
ResourceCommands ==
  {"page list", "page get", "page create", "page update", "database list",
   "database get", "database query", "database create", "database update"}
ActionRan ==
  CASE last.op \in {"page get", "page update"} -> last.in.pageId # Undef
    [] last.op \in {"database get", "database query", "database update"} ->
         last.in.databaseId # Undef
    [] last.op = "page create" -> last.in.title # Undef
    [] last.op = "database create" -> last.in.title # Undef /\ last.in.parent # Undef
    [] OTHER -> last.op \in ResourceCommands
OperationNames ==
  {"List pages", "Get page", "Create page", "Update page", "List databases",
   "Get database", "Query database", "Create database", "Update database"}

\* C23: a page or database command whose action runs while the credential
\* file holds no token prints the not-authenticated error with its hint to
\* run auth login, exits with status 1, prints no result and issues no remote
\* call.
C23_NotAuthenticated ==
  ActionRan /\ ~HoldsToken(last.pre) =>
    /\ exitCode = [exited |-> TRUE, code |-> 1]
    /\ calls = <<>>
    /\ out = <<>>
    /\ Len(err) > 0
    /\ err[1].fmt = "X ${operation} failed: ${message}"
    /\ err[1].vals[1] \in OperationNames
    /\ err[1].vals[2] = "Not authenticated. Run \"notion auth login\" first."

\* A database query with well-formed options, run with a record that has a
\* workspace and no token.
C23_Witness ==
  /\ last.op = "database query"
  /\ last.in.databaseId # Undef
  /\ last.in.filter = Undef /\ last.in.sorts = Undef
  /\ HasNoTokenField(last.pre)
  /\ err[1].vals = <<"Query database", NotAuthenticatedMessage>>
  /\ calls = <<>>
  /\ ExitStatus = 1

\* The names of the remote calls an invocation issued, in the order issued.
ApisCalled == [i \in DOMAIN calls |-> calls[i].api]

\* C24: an invocation issues at most two remote calls; two are issued only by
\* page get with --content, the page retrieval first and the block list after
\* the retrieval succeeded; once a remote call has failed no other is issued.
C24_SequentialRemoteCalls ==
  last.op # "idle" =>
    /\ Len(calls) <= 2
    /\ Len(calls) = 2 =>
         /\ last.op = "page get"
         /\ last.in.content
         /\ ApisCalled = <<"pages.retrieve", "blocks.children.list">>
         /\ last.in.resp.ok
    /\ (Len(calls) >= 1 /\ ~last.in.resp.ok) => Len(calls) = 1

\* A page get with --content whose retrieval succeeded and whose block list
\* failed: two calls, then the error exit.
C24_Witness ==
  /\ last.op = "page get"
  /\ last.in.content
  /\ last.in.resp.ok /\ ~last.in.resp2.ok
  /\ ApisCalled = <<"pages.retrieve", "blocks.children.list">>
  /\ ExitStatus = 1
  /\ out = <<>>

\* The result on standard output is the text of the encoder that the format
\* name selects: the TOON text of some data, a JSON text that reads back to
\* the data it writes, or indented key lines.
RenderedIn(format) ==
  /\ out[1].kind = "string"
  /\ LET text == out[1].val
         first == text[1].words[1]
     IN  CASE format = "toon" -> first.kind = "toon" /\ text = encodeToon(first.s)
           [] format = "json" ->
                /\ first.kind = "punct"
                /\ ParseText(text).ok
                /\ text = encodeJson(ParseText(text).val)
           [] format = "plain" -> first.kind = "key"

\* C25: the result of every sub-command, auth login, auth logout and auth
\* status included, is rendered in the format given with the root --format
\* option, which is toon when the option is not given.
C25_RootFormatEverywhere ==
  (last.op # "idle" /\ Len(out) = 1 /\ last.in.root \in Formats) =>
    RenderedIn(last.in.root)

\* C26, as claimed: the title a database command displays is the one the page
\* rule reads off the property map of the same resource.
C26_Original ==
  last.op = "database extractTitle" => ret.val = extractTitle(last.in.db)

\* C26, amended: the title a database command displays is the text of the
\* first item of the database's own title when that text is not empty, and
\* "Untitled" otherwise, whatever the property map holds; a resource with no
\* title text of its own and none in its properties is "Untitled" under the
\* page rule as well.
C26_DatabaseTitle ==
  last.op = "database extractTitle" =>
    /\ ret.val = IF Len(last.in.db.title) > 0 /\ last.in.db.title[1].plain_text # ""
                 THEN last.in.db.title[1].plain_text
                 ELSE "Untitled"
    /\ \A m \in {pm \in PropertyMaps : Len(pm) <= 1} :
         databaseExtractTitle([last.in.db EXCEPT !.properties = m]) = ret.val
    /\ (/\ ~Truthy(FirstPlainText(last.in.db))
        /\ \A i \in DOMAIN last.in.db.properties :
             ~Truthy(FirstPlainText(last.in.db.properties[i][2]))) =>
         ret.val = "Untitled" /\ extractTitle(last.in.db) = "Untitled"

\* A database with its own title and a title property of another text: the
\* database rule gives the first, the page rule the second.
C26_Witness ==
  /\ last.op = "database extractTitle"
  /\ last.in.db.title = <<RichText("A")>>
  /\ last.in.db.properties = <<(<<"Name", [type |-> "title", title |-> <<RichText("B")>>]>>)>>
  /\ ret = Value("A")
  /\ extractTitle(last.in.db) = "B"

\* The second line of the diagnostic the claim gives each HTTP status.
StatusDiagnostic(status) ==
  CASE status = 400 -> Text("  Bad request. Check your input and try again.")
    [] status = 401 -> Text("  Authentication failed.")
    [] status = 403 -> Text("  Permission denied.")
    [] status = 404 -> Text("  Resource not found.")
    [] status = 429 -> Text("  Rate limit exceeded. Please wait and try again.")
    [] status \in 500..599 -> Text("  Notion server error. Please try again later.")
    [] OTHER -> Line("  HTTP ${status} error.", <<>>, <<>>, status)

\* C27: for an error with no service code and an HTTP status, every status
\* from 500 to 599 gets the server-error diagnostic, each of 400, 401, 403,
\* 404 and 429 its own diagnostic, and only the other statuses the bare
\* `HTTP <status> error.` line.
C27_HttpStatusMapping ==
  (/\ last.op = "handleNotionError"
   /\ ~Truthy(last.in.error.code)
   /\ last.in.error.status # 0) =>
    /\ Len(err) >= 2
    /\ err[1] = Line("X ${operation} failed", <<>>, <<last.in.operation>>, 0)
    /\ err[2] = StatusDiagnostic(last.in.error.status)

\* C28: auth status leaves the credential file as it found it, whether no
\* record exists, the stored token validates, the stored token is rejected or
\* the validation call fails.
C28_StatusKeepsFile ==
  last.op = "auth status" => fs = last.pre

\* A status check whose stored token the service turned down: the answer is
\* "not authenticated" and the record is still there.
C28_Witness ==
  /\ last.op = "auth status"
  /\ HoldsToken(last.pre)
  /\ ~last.in.resp.ok
  /\ Len(calls) = 1
  /\ Len(out) = 1
  /\ HoldsToken(fs)
  /\ fs = last.pre

\* The login ran to its end: the result is printed and the process was not
\* exited.
LoginSucceeded ==
  /\ last.op = "auth login"
  /\ ~exitCode.exited
  /\ Len(out) = 1

\* C29: after a successful auth login with token t the credential file holds
\* the record with the single field notionToken = t; no field of the record
\* it replaced, defaultWorkspace included, is left.
C29_LoginReplacesRecord ==
  LoginSucceeded =>
    /\ fs.dir
    /\ fs.file = FileJson(<<(<<"notionToken", LoginToken(last.in)>>)>>)
    /\ FieldOf(fs, "defaultWorkspace") = Undef

\* A login with tokA over a record that held tokB and a workspace.
C29_Witness ==
  /\ LoginSucceeded
  /\ last.pre.file = FileJson(<<(<<"notionToken", "tokB">>), (<<"defaultWorkspace", "ws1">>)>>)
  /\ last.in.token = "tokA"
  /\ fs.file.pairs = <<(<<"notionToken", "tokA">>)>>

\* ---------------------------------------------------------------- two invocations at once

\* The commands that write the credential file: a login whose token the
\* service accepted (its saveConfig), and a logout (loadConfig, deleteConfig).
RaceCommands ==
  {[cmd |-> "login", token |-> t] : t \in RealTokens}
    \cup {[cmd |-> "logout", token |-> Undef]}

\* An invocation about to take its first file-system step.
Started(c) ==
  [cmd |-> c.cmd, token |-> c.token,
   pc |-> IF c.cmd = "login" THEN "existsSync dir" ELSE "readFileSync",
   config |-> NullConfig, detached |-> FALSE, failed |-> FALSE]

\* The credential files the two invocations can start from.
RaceFs ==
  {FsFresh, [dir |-> TRUE, file |-> FileAbsent]}
    \cup {[dir |-> TRUE, file |-> FileJson(JsonStringify(c))] :
            c \in [notionToken : {"tokB"}, defaultWorkspace : {Undef, "ws1"}]}

\* Invocation i moves to position pc; the file system becomes f.
Moves(i, p, f) ==
  /\ procs' = [procs EXCEPT ![i] = p]
  /\ fs' = f
  /\ UNCHANGED <<last, ret, calls, out, err, exitCode, reg, lastAuth>>

At(i, pc) == Len(procs) = 2 /\ procs[i].pc = pc

\* loadConfig of logout: fs.readFileSync and JSON.parse, null when either throws.
ReadFile(i) ==
  /\ At(i, "readFileSync")
  /\ LET config == loadConfig(fs).val
     IN  Moves(i, [procs[i] EXCEPT !.config = config,
                                   !.pc = IF Truthy(TokenOf(config))
                                          THEN "existsSync file" ELSE "done"], fs)

\* saveConfig: if (!fs.existsSync(CONFIG_DIR))
ExistsDir(i) ==
  /\ At(i, "existsSync dir")
  /\ Moves(i, [procs[i] EXCEPT !.pc = IF fs.dir THEN "open" ELSE "mkdirSync"], fs)

\* saveConfig: fs.mkdirSync(CONFIG_DIR, { recursive: true })
MakeDir(i) ==
  /\ At(i, "mkdirSync")
  /\ Moves(i, [procs[i] EXCEPT !.pc = "open"], mkdirSync(fs))

\* saveConfig: fs.writeFileSync first opens the path, which creates the file
\* or empties it; an empty file is not JSON.
OpenFile(i) ==
  /\ At(i, "open")
  /\ Moves(i, [procs[i] EXCEPT !.pc = "write", !.detached = FALSE],
           [fs EXCEPT !.file = FileGarbage])

\* saveConfig: fs.writeFileSync then writes the text into the file it opened,
\* which is no longer at the path when it was unlinked since.
WriteFile(i) ==
  /\ At(i, "write")
  /\ Moves(i, [procs[i] EXCEPT !.pc = "done"],
           IF procs[i].detached THEN fs
           ELSE [fs EXCEPT !.file =
                   FileJson(JsonStringify([notionToken |-> procs[i].token,
                                           defaultWorkspace |-> Undef]))])

\* deleteConfig: if (fs.existsSync(CONFIG_PATH))
ExistsFile(i) ==
  /\ At(i, "existsSync file")
  /\ Moves(i, [procs[i] EXCEPT !.pc = IF existsSync(fs) THEN "unlinkSync" ELSE "done"], fs)

\* deleteConfig: fs.unlinkSync(CONFIG_PATH) removes the file, or throws ENOENT
\* when the path is gone; logout has no try around it, so the throw ends the
\* invocation.
Unlink(i) ==
  /\ At(i, "unlinkSync")
  /\ IF existsSync(fs)
     THEN /\ procs' = [j \in 1..2 |->
                         IF j = i THEN [procs[j] EXCEPT !.pc = "done"]
                         ELSE IF procs[j].pc = "write"
                         THEN [procs[j] EXCEPT !.detached = TRUE]
                         ELSE procs[j]]
          /\ fs' = [fs EXCEPT !.file = FileAbsent]
          /\ UNCHANGED <<last, ret, calls, out, err, exitCode, reg, lastAuth>>
     ELSE Moves(i, [procs[i] EXCEPT !.pc = "done", !.failed = TRUE], fs)

InitRace ==
  /\ fs \in RaceFs
  /\ procs \in {<<Started(a), Started(b)>> : a, b \in RaceCommands}
  /\ last = [op |-> "race", pre |-> fs, in |-> NoInputs]
  /\ ret = NoReturn
  /\ calls = <<>>
  /\ out = <<>>
  /\ err = <<>>
  /\ exitCode = NotRun
  /\ reg = [known |-> FALSE, saved |-> FALSE, config |-> NoInputs]
  /\ lastAuth = [kind |-> "untracked", token |-> Undef]

NextRace ==
  \E i \in 1..2 :
    \/ ReadFile(i)
    \/ ExistsDir(i)
    \/ MakeDir(i)
    \/ OpenFile(i)
    \/ WriteFile(i)
    \/ ExistsFile(i)
    \/ Unlink(i)

SpecRace == InitRace /\ [][NextRace]_vars

\* What one of the commands leaves on file system f when it runs alone.
Alone(c, f) ==
  IF c.cmd = "login"
  THEN saveConfig(f, [notionToken |-> c.token, defaultWorkspace |-> Undef])
  ELSE authLogout(f, "toon").fs

\* The credential files the two serial orders end with.
SerialFiles ==
  {Alone(procs[2], Alone(procs[1], last.pre)).file,
   Alone(procs[1], Alone(procs[2], last.pre)).file}

BothDone == Len(procs) = 2 /\ \A i \in 1..2 : procs[i].pc = "done"

\* C30: when two invocations run at the same time on the same credential
\* file, under every interleaving of the file-system steps of loadConfig,
\* saveConfig and deleteConfig neither invocation fails because of the other,
\* and the file they leave is the file of one of the two serial orders.
C30_RaceFree ==
  BothDone =>
    /\ \A i \in 1..2 : ~procs[i].failed
    /\ fs.file \in SerialFiles

====
